---- MODULE Spec2Model ----
(***************************************************************************)
(* Client-side synchronisation of the two screens of the application:      *)
(* ExerciseForge (exam list, exam/correction editor, AI chat) and          *)
(* Dashboard (pupil reports), over the remote store and its change         *)
(* stream.  Every handler is a closure over the values of the render that  *)
(* created it; a handler that awaits a remote call is split at the await:  *)
(* the first half is one action, the continuation is a record in `tasks`   *)
(* holding the closure values it still reads, and its resolution is        *)
(* another action.  Between the two, any other handler may run.            *)
(***************************************************************************)
EXTENDS Integers, Sequences, FiniteSets, Bags, TLC

\* ------------------------------------------------------------------ bounds
MaxExams == 2        \* rows the exams table may hold
MaxTasks == 2        \* handlers in flight at the same time
MaxChat == 4         \* entries the chat may hold
MaxFiles == 2        \* files in one upload
MaxChannels == 3     \* channel objects created over a run
MaxNotes == 2        \* change notifications produced over a run
MaxCorrections == 2  \* rows the corrections table may hold
MaxReports == 2      \* rows the reports table may hold
MaxSaving == 1       \* handlers in flight once a save has started, the save included
MaxMatched == 2      \* rows a query of the domain access layer may match

\* ------------------------------------------------------------------ values
Null == <<>>
Some(x) == <<x>>
Val(o) == o[1]

Teachers == {"t1", "t2"}
Pupils == {"p1", "p2"}
Texts == {"a", "b"}
Modes == {"edit", "correction"}
ExamIds == 1..MaxExams

Exam(i, t, c, o) == [id |-> i, title |-> t, content |-> c, teacher_id |-> o]
Correction(i, e, c, o) == [id |-> i, exam_id |-> e, content |-> c, teacher_id |-> o]
Report(i, p, t, o) == [id |-> i, pupil_id |-> p, report_title |-> t, teacher_id |-> o]

VARIABLES
    \* authenticated session and the remote store
    user, dbExams, dbCorrections,
    \* ExerciseForge: component state
    exams, selectedExam, examContent, correctionContent, editableContent,
    correction, mode, loading, isLoadingContent, isCreatingNew,
    isWaitingForCorrection, chatMessages, isSendingMessage, message, newExamId,
    \* ExerciseForge: refs
    examContentCache, examListCache, initialLoadComplete,
    \* ExerciseForge: the chat panel height, the refs of a resize and the number
    \* of mousemove/mouseup listener pairs on the document
    chatHeight, startResizeY, startHeight, listeners,
    \* Dashboard: component state
    selectedPupilId, currentReportId, availableReports, activeTab,
    dbReports,
    \* real-time channels: the client's channel list, which screens are mounted,
    \* and the channel each effect's cleanup holds
    channels, mountedForge, mountedDash, corrChannel, examsChannel, reportsChannel,
    \* change notifications: those not yet delivered, how many were produced, and
    \* how many the exams listener has merged into the list for each row id
    inbox, notes, merged,
    \* the last notification shown by toast.*
    toast,
    \* continuations of the handlers in flight
    tasks,
    \* history: the last handler step taken, the edit buffer at the last
    \* edit -> correction toggle, and the edit buffer at the last correction ->
    \* edit toggle made with no lookup in flight (written by the actions, read
    \* only by properties)
    last, shown, kept

authVars == <<user>>
storeVars == <<dbExams, dbCorrections, dbReports>>
editorVars == <<selectedExam, examContent, correctionContent, editableContent,
                correction, mode, isLoadingContent, isCreatingNew>>
listVars == <<exams, examContentCache, examListCache, newExamId, loading,
              initialLoadComplete>>
chatVars == <<chatMessages, isSendingMessage, message, isWaitingForCorrection>>
resizeVars == <<chatHeight, startResizeY, startHeight, listeners>>
forgeVars == <<editorVars, listVars, chatVars>>
dashVars == <<selectedPupilId, currentReportId, availableReports, activeTab>>
subVars == <<channels, mountedForge, mountedDash, corrChannel, examsChannel,
             reportsChannel>>

noteVars == <<inbox, notes, merged>>

vars == <<authVars, storeVars, forgeVars, resizeVars, dashVars, subVars, noteVars,
          toast, tasks, last, shown, kept>>

\* ------------------------------------------------------------ remote store
\* Rows the access policy lets teacher u read.
Visible(rows, u) == SelectSeq(rows, LAMBDA r : Some(r.teacher_id) = u)

\* .single(): exactly one row, or the error PGRST116.
Single(rows) ==
    IF Len(rows) = 1 THEN [data |-> Some(rows[1]), error |-> ""]
    ELSE [data |-> Null, error |-> "PGRST116"]

\* A remote call that did not reach the store.
Unreachable == [data |-> Null, error |-> "network"]

\* The values an awaited call can resolve to: the store's answer, or a failure.
Outcomes(answer) == {answer, Unreachable}

Threw(e) == [threw |-> TRUE, value |-> Null, error |-> e]
Returned(v) == [threw |-> FALSE, value |-> v, error |-> ""]

\* ------------------------------------------------------- domain access layer
database_exams_ops == {"create", "list", "update", "get"}

database_exams_get(res) ==
    IF res.error # "" THEN Threw(res.error) ELSE Returned(res.data)

database_corrections_getByExamId(res) ==
    IF res.error # "" /\ res.error # "PGRST116" THEN Threw(res.error)
    ELSE Returned(res.data)

SelectExamById(id) ==
    Single(SelectSeq(Visible(dbExams, user), LAMBDA r : r.id = id))

SelectCorrectionByExam(id) ==
    Single(SelectSeq(Visible(dbCorrections, user), LAMBDA r : r.exam_id = id))

\* -------------------------------------------------------------------- tasks
Spawn(t) == tasks (+) SetToBag({t})
Finish_again(t) == tasks

Finish(t) == tasks (-) SetToBag({t})
Running == BagToSet(tasks)
CanSpawn == BagCardinality(tasks) < MaxTasks

Step(op, arg) == [op |-> op, arg |-> arg]

\* ----------------------------------------------------- real-time channels
Topics == {"corrections", "exams", "reports"}

\* supabase.channel(...).on(...).subscribe(): a new channel object, holding the
\* closure of the render whose effect opened it.
FreshChannel(chs) == CHOOSE i \in 1..(Cardinality(chs) + 1) : \A c \in chs : c.id # i

NoCleanup(chs, held) == chs

removeChannel(chs, held) == {c \in chs : Some(c.id) # held}

\* One run of the corrections effect of ExerciseForge for the render (u, sel),
\* after the cleanup of its previous run.
CorrectionsEffect(chs, held, u, sel) ==
    LET cleaned == removeChannel(chs, held)
        id == FreshChannel(cleaned)
    IN  IF u # Null
        THEN [channels |-> cleaned \cup {[id |-> id, topic |-> "corrections",
                                          uid |-> Val(u), selectedExam |-> sel]},
              held |-> Some(id)]
        ELSE [channels |-> cleaned, held |-> Null]

\* One run of the exams effect of ExerciseForge for the render (u).
ExamsEffect(chs, held, u) ==
    LET cleaned == removeChannel(chs, held)
        id == FreshChannel(cleaned)
    IN  IF u = Null THEN [channels |-> cleaned, held |-> Null]
        ELSE [channels |-> cleaned \cup {[id |-> id, topic |-> "exams", uid |-> Val(u)]},
              held |-> Some(id)]

\* One run of the reports effect of Dashboard for the render (u, pupil); the
\* handler calls the fetchReports of that render, which closes over report.
ReportsEffect(chs, held, u, pupil, report) ==
    LET cleaned == removeChannel(chs, held)
        id == FreshChannel(cleaned)
    IN  IF u = Null THEN [channels |-> cleaned, held |-> Null]
        ELSE [channels |-> cleaned \cup {[id |-> id, topic |-> "reports", uid |-> Val(u),
                                          selectedPupilId |-> pupil,
                                          currentReportId |-> report]},
              held |-> Some(id)]

\* The effects that run after a render in which the user id is u, the selected
\* exam sel, the selected pupil `pupil` and the current report `report`; run1,
\* run2 and run3 say which effects run (mounted, and a dependency changed).
Effects(u, sel, pupil, report, run1, run2, run3) ==
    LET e1 == IF run1 THEN CorrectionsEffect(channels, corrChannel, u, sel)
              ELSE [channels |-> channels, held |-> corrChannel]
        e2 == IF run2 THEN ExamsEffect(e1.channels, examsChannel, u)
              ELSE [channels |-> e1.channels, held |-> examsChannel]
        e3 == IF run3 THEN ReportsEffect(e2.channels, reportsChannel, u, pupil, report)
              ELSE [channels |-> e2.channels, held |-> reportsChannel]
    IN  /\ Cardinality(e3.channels) <= MaxChannels
        /\ channels' = e3.channels
        /\ corrChannel' = e1.held
        /\ examsChannel' = e2.held
        /\ reportsChannel' = e3.held

ForgeEffects(u, sel, run1, run2) ==
    /\ Effects(u, sel, selectedPupilId, currentReportId, run1, run2, FALSE)
    /\ UNCHANGED mountedDash

\* The selected exam changed: the corrections effect re-runs.
SelectedExamChanged(sel) ==
    /\ ForgeEffects(user, sel, TRUE, FALSE)
    /\ UNCHANGED mountedForge

\* ------------------------------------------------------------ construction
InitialExams == {<<>>, <<Exam(1, "T1", "a", "t1")>>}
InitialCorrections(es) ==
    IF es = <<>> THEN {<<>>} ELSE {<<>>, <<Correction(1, 1, "b", "t1")>>}

\* useState(300): the height of the chat panel at construction.
InitialHeight == 300

\* The state of the two components as useState and useRef construct it.
ForgeConstructed ==
    /\ exams = <<>> /\ selectedExam = Null
    /\ examContent = "" /\ correctionContent = "" /\ editableContent = ""
    /\ correction = Null /\ mode = "edit"
    /\ loading = TRUE /\ isLoadingContent = FALSE /\ isCreatingNew = FALSE
    /\ isWaitingForCorrection = FALSE
    /\ chatMessages = <<>> /\ isSendingMessage = FALSE /\ message = ""
    /\ newExamId = Null
    /\ examContentCache = <<>> /\ examListCache = <<>>
    /\ initialLoadComplete = FALSE
    /\ chatHeight = InitialHeight /\ startResizeY = 0 /\ startHeight = 0
    /\ listeners = 0

DashConstructed ==
    /\ selectedPupilId = "" /\ currentReportId = Null /\ availableReports = <<>>
    /\ activeTab = "chat"

InitWith(users, stores) ==
    /\ user \in users
    /\ dbExams \in stores
    /\ dbCorrections \in InitialCorrections(dbExams)
    /\ dbReports = <<>>
    /\ ForgeConstructed /\ DashConstructed
    /\ channels = {} /\ mountedForge = FALSE /\ mountedDash = FALSE
    /\ corrChannel = Null /\ examsChannel = Null /\ reportsChannel = Null
    /\ inbox = EmptyBag /\ notes = 0 /\ merged = [i \in ExamIds |-> 0]
    /\ toast = "" /\ tasks = EmptyBag
    /\ last = Step("init", Null) /\ shown = Null /\ kept = Null

Init == InitWith({Some("t1")}, InitialExams)

\* Dashboard reads no exam: its runs start from an empty exams table.
InitDash == InitWith({Some("t1")}, {<<>>})

\* ---------------------------------------------------------------- loadExams
verifyConnectionOutcomes == {TRUE, FALSE}

loadExams_task == [h |-> "loadExams", pc |-> "verifyConnection"]

RefAfterLoad_unset == FALSE

\* initialLoadComplete.current = true
RefAfterLoad == TRUE

\* The first lines of the first effect, when the effect runs in this step:
\* loadExams starts (up to its first await) unless the ref says it has run.
\* bag holds the handlers that are in flight otherwise.
InitialLoad(run, bag) ==
    IF run /\ ~initialLoadComplete
    THEN /\ loading' = TRUE
         /\ tasks' = bag (+) SetToBag({loadExams_task})
         /\ initialLoadComplete' = RefAfterLoad
    ELSE /\ tasks' = bag
         /\ UNCHANGED <<loading, initialLoadComplete>>

\* ExerciseForge mounts (the two screens are routes of the application: one is
\* mounted at a time): both effects run for the first time.  The first one
\* starts loadExams unless the ref says it has run.
MountForge ==
    /\ ~mountedForge /\ ~mountedDash
    /\ mountedForge' = TRUE
    /\ ForgeEffects(user, selectedExam, TRUE, TRUE)
    /\ InitialLoad(TRUE, tasks)
    /\ last' = Step("mount", Null)
    /\ UNCHANGED <<authVars, resizeVars, storeVars, editorVars, chatVars, dashVars, noteVars, toast,
                   shown, kept, exams, examContentCache, examListCache, newExamId>>

\* loadExams after `await verifyConnection()`.
loadExams_verified ==
    \E t \in Running, isConnected \in verifyConnectionOutcomes :
        /\ t = loadExams_task
        /\ IF ~isConnected
           THEN /\ toast' = "Unable to connect to the database"
                /\ loading' = FALSE
                /\ tasks' = Finish(t)
           ELSE /\ tasks' = Spawn([h |-> "loadExams", pc |-> "select"]) (-) SetToBag({t})
                /\ UNCHANGED <<toast, loading>>
        /\ last' = Step("loadExams", IF isConnected THEN "connected" ELSE "unreachable")
        /\ UNCHANGED <<authVars, resizeVars, storeVars, editorVars, chatVars, dashVars, subVars,
                       noteVars, shown, kept, exams, examContentCache, examListCache, newExamId,
                       initialLoadComplete>>

\* loadExams after the exams query.
loadExams_selected ==
    \E t \in Running, failed \in BOOLEAN :
        /\ t = [h |-> "loadExams", pc |-> "select"]
        /\ IF failed
           THEN /\ toast' = "Failed to load exams"
                /\ UNCHANGED <<exams, examListCache>>
           ELSE /\ exams' = Visible(dbExams, user)
                /\ examListCache' = Visible(dbExams, user)
                /\ UNCHANGED toast
        /\ loading' = FALSE
        /\ tasks' = Finish(t)
        /\ last' = Step("loadExams", IF failed THEN "error" ELSE "loaded")
        /\ UNCHANGED <<authVars, resizeVars, storeVars, editorVars, chatVars, dashVars, subVars,
                       noteVars, shown, kept, examContentCache, newExamId, initialLoadComplete>>

\* ---------------------------------------------------------- handleExamSelect
Put(cache, k, v) == [i \in DOMAIN cache \cup {k} |-> IF i = k THEN v ELSE cache[i]]
Drop(cache, k) == [i \in DOMAIN cache \ {k} |-> cache[i]]

ListedIds == {exams[i].id : i \in DOMAIN exams}

\* handleExamSelect(null): the "Create New Exam" button.
handleExamSelect_null ==
    /\ mountedForge
    /\ selectedExam' = Null /\ examContent' = "" /\ correctionContent' = ""
    /\ correction' = Null /\ editableContent' = "" /\ chatMessages' = <<>>
    /\ isCreatingNew' = TRUE /\ mode' = "edit"
    /\ IF selectedExam # Null THEN SelectedExamChanged(Null) ELSE UNCHANGED subVars
    /\ InitialLoad(selectedExam # Null, tasks)
    /\ last' = Step("handleExamSelect", Null)
    /\ shown' = Null /\ kept' = Null
    /\ UNCHANGED <<authVars, resizeVars, storeVars, dashVars, noteVars, toast, exams,
                   examContentCache, examListCache, newExamId,
                   isLoadingContent, isSendingMessage, message, isWaitingForCorrection>>

ClearNewExam_always(examId) == Null

\* if (newExamId === examId) setNewExamId(null)
ClearNewExam(examId) == IF newExamId = Some(examId) THEN Null ELSE newExamId

\* handleExamSelect(examId) up to `await database.exams.get(examId)`.
handleExamSelect_start(examId) ==
    /\ mountedForge /\ CanSpawn
    /\ examId \in ListedIds
    /\ newExamId' = ClearNewExam(examId)
    /\ isLoadingContent' = TRUE
    /\ tasks' = Spawn([h |-> "handleExamSelect", examId |-> examId])
    /\ last' = Step("handleExamSelect_start", examId)
    /\ shown' = Null /\ kept' = Null
    /\ UNCHANGED <<authVars, resizeVars, storeVars, chatVars, dashVars, subVars, noteVars, toast,
                   selectedExam, examContent, correctionContent, editableContent,
                   correction, mode, isCreatingNew, exams, examContentCache,
                   examListCache, loading, initialLoadComplete>>

ShownContent_cached(t, fetchedExam) ==
    IF t.examId \in DOMAIN examContentCache THEN examContentCache[t.examId]
    ELSE fetchedExam.content

\* setExamContent(fetchedExam.content); setEditableContent(fetchedExam.content)
ShownContent(t, fetchedExam) == fetchedExam.content

LoadingAfterSelect_returned(failed) == IF failed THEN isLoadingContent ELSE FALSE

\* finally { setIsLoadingContent(false) }: also after the early return and
\* after the catch.
LoadingAfterSelect(failed) == FALSE

\* handleExamSelect after the exam fetch.
handleExamSelect_fetched ==
    \E t \in Running :
        /\ t.h = "handleExamSelect"
        /\ \E res \in Outcomes(SelectExamById(t.examId)) :
            LET got == database_exams_get(res) IN
            /\ IF got.threw \/ got.value = Null
               THEN /\ toast' = "Failed to load exam"
                    /\ UNCHANGED <<selectedExam, examContent, correctionContent,
                                   editableContent, correction, mode, isCreatingNew,
                                   chatMessages, examContentCache, subVars>>
                    /\ InitialLoad(FALSE, Finish(t))
               ELSE /\ selectedExam' = got.value
                    /\ examContent' = ShownContent(t, Val(got.value))
                    /\ editableContent' = ShownContent(t, Val(got.value))
                    /\ correctionContent' = ""
                    /\ correction' = Null
                    /\ chatMessages' = <<>>
                    /\ mode' = "edit"
                    /\ isCreatingNew' = FALSE
                    /\ examContentCache' =
                           Put(examContentCache, t.examId, Val(got.value).content)
                    /\ SelectedExamChanged(got.value)
                    /\ InitialLoad(TRUE, Finish(t))
                    /\ UNCHANGED toast
            /\ last' = Step("handleExamSelect", IF got.threw \/ got.value = Null THEN "error" ELSE "selected")
            /\ isLoadingContent' = LoadingAfterSelect(got.threw \/ got.value = Null)
        /\ shown' = Null /\ kept' = Null
        /\ UNCHANGED <<authVars, resizeVars, storeVars, dashVars, noteVars, exams, examListCache,
                       newExamId, isSendingMessage,
                       message, isWaitingForCorrection>>

\* ----------------------------------------------------------- loadCorrection
\* loadCorrection(currentMode) of a render whose selected exam is sel, up to
\* `await database.corrections.getByExamId(...)`; `next` is what its caller
\* does once it returns.
loadCorrection_task(sel, currentMode, caller, next) ==
    [h |-> "loadCorrection", examId |-> Val(sel).id, currentMode |-> currentMode,
     caller |-> caller, next |-> next]

\* What follows `await loadCorrection(...)` in its callers.
AfterLoadCorrection(next) ==
    CASE next.do = "setMode" -> /\ mode' = next.mode
                                /\ UNCHANGED isSendingMessage
      [] next.do = "finally" -> /\ isSendingMessage' = FALSE
                                /\ UNCHANGED mode

\* loadCorrection after the correction lookup, then the rest of its caller.
loadCorrection_fetched ==
    \E t \in Running :
        /\ t.h = "loadCorrection"
        /\ \E res \in Outcomes(SelectCorrectionByExam(t.examId)) :
            LET got == database_corrections_getByExamId(res)
                text == IF got.value # Null THEN Val(got.value).content ELSE ""
            IN
            /\ IF got.threw
               THEN /\ toast' = "Failed to load correction"
                    /\ UNCHANGED <<correction, correctionContent, editableContent>>
               ELSE /\ correction' = got.value
                    /\ correctionContent' = text
                    /\ editableContent' =
                           IF t.currentMode = "correction" THEN text ELSE editableContent
                    /\ UNCHANGED toast
            /\ last' = Step(t.caller, IF got.threw THEN "lookup failed" ELSE "lookup done")
        /\ isLoadingContent' = FALSE
        /\ AfterLoadCorrection(t.next)
        /\ tasks' = Finish(t)
        /\ UNCHANGED <<authVars, resizeVars, storeVars, listVars, dashVars, subVars, noteVars, shown, kept,
                       selectedExam, examContent, isCreatingNew, chatMessages, message,
                       isWaitingForCorrection>>

\* --------------------------------------------------------- handleToggleMode
\* The editor is rendered: an exam is selected and the create-new panel is not.
EditorShown == mountedForge /\ selectedExam # Null /\ ~isCreatingNew

\* correction -> edit (lines 259-261).
ToggleToEdit_swapped(newMode) ==
    /\ correctionContent' = editableContent
    /\ editableContent' = correctionContent
    /\ mode' = newMode
    /\ UNCHANGED <<examContent, isLoadingContent, tasks, shown>>
    /\ kept' = IF \E t \in Running : t.h = "loadCorrection" THEN Null
                ELSE Some(editableContent)

ToggleToEdit(newMode) ==
    /\ correctionContent' = editableContent
    /\ editableContent' = examContent
    /\ mode' = newMode
    /\ UNCHANGED <<examContent, isLoadingContent, tasks, shown>>
    /\ kept' = IF \E t \in Running : t.h = "loadCorrection" THEN Null
                ELSE Some(editableContent)

\* edit -> correction (lines 262-270): the correction is looked up unless one
\* is loaded already; setMode follows the lookup.
ToggleToCorrection(newMode) ==
    /\ examContent' = editableContent
    /\ shown' = Some(editableContent)
    /\ UNCHANGED kept
    /\ IF correction = Null /\ selectedExam # Null
       THEN /\ CanSpawn
            /\ isLoadingContent' = TRUE
            /\ tasks' = Spawn(loadCorrection_task(selectedExam, newMode, "handleToggleMode",
                                  [do |-> "setMode", mode |-> newMode]))
            /\ UNCHANGED <<editableContent, mode, correctionContent>>
       ELSE /\ editableContent' = correctionContent
            /\ mode' = newMode
            /\ UNCHANGED <<isLoadingContent, tasks, correctionContent>>

handleToggleMode(newMode) ==
    /\ EditorShown
    /\ IF mode = "correction" /\ newMode = "edit" THEN ToggleToEdit(newMode)
       ELSE IF mode = "edit" /\ newMode = "correction" THEN ToggleToCorrection(newMode)
       ELSE /\ mode' = newMode
            /\ UNCHANGED <<examContent, correctionContent, editableContent,
                           isLoadingContent, tasks, shown, kept>>
    /\ last' = Step("handleToggleMode", newMode)
    /\ UNCHANGED <<authVars, resizeVars, storeVars, listVars, chatVars, dashVars, subVars, noteVars,
                   toast, selectedExam, correction, isCreatingNew>>

\* The user types in the editor: setEditableContent(text).
setEditableContent(text) ==
    /\ EditorShown
    /\ editableContent # text
    /\ editableContent' = text
    /\ last' = Step("setEditableContent", text)
    /\ UNCHANGED <<authVars, resizeVars, storeVars, listVars, chatVars, dashVars, subVars, noteVars,
                   toast, tasks, shown, kept, selectedExam, examContent, correctionContent,
                   correction, mode, isLoadingContent, isCreatingNew>>

\* ------------------------------------------------------ change notifications
Note(table, row) == [table |-> table, id |-> row.id, teacher_id |-> row.teacher_id]

\* The store announces an inserted row on the change stream when a channel is
\* subscribed to its table (unless the stream drops it: no more than MaxNotes
\* notifications are produced over a run).
Announce(n) ==
    IF notes < MaxNotes /\ \E ch \in channels : ch.topic = n.table
    THEN inbox' = inbox (+) SetToBag({n}) /\ notes' = notes + 1 /\ UNCHANGED merged
    ELSE UNCHANGED noteVars

\* The notification n is taken off the stream, or stays on it to be delivered
\* once more.
Delivered(n, again) ==
    IF again
    THEN notes < MaxNotes /\ notes' = notes + 1 /\ UNCHANGED <<inbox, merged>>
    ELSE inbox' = inbox (-) SetToBag({n}) /\ UNCHANGED <<notes, merged>>

NextId(rows) == Len(rows) + 1

OwnRow_any(n, ch) == TRUE

\* payload.new.teacher_id === user?.id in the handlers of ExerciseForge, and the
\* filter `teacher_id=eq.${user.id}` of the reports subscription: the user is
\* the one of the render that subscribed the channel ch.
OwnRow(n, ch) == n.teacher_id = ch.uid

\* The AI workflow inserts the correction of an exam; the store announces it.
BackendInsertsCorrection ==
    \E i \in DOMAIN dbExams, text \in Texts :
        LET row == Correction(NextId(dbCorrections), dbExams[i].id, text,
                              dbExams[i].teacher_id) IN
        /\ Len(dbCorrections) < MaxCorrections
        /\ \A j \in DOMAIN dbCorrections : dbCorrections[j].exam_id # row.exam_id
        /\ dbCorrections' = <<row>> \o dbCorrections
        /\ Announce(Note("corrections", row))
        /\ last' = Step("backend", "corrections")
        /\ UNCHANGED <<authVars, resizeVars, dbExams, dbReports, forgeVars, dashVars, subVars, toast,
                       tasks, shown, kept>>

WaitingAfterReady_kept == isWaitingForCorrection

\* setIsWaitingForCorrection(false)
WaitingAfterReady == FALSE

\* The corrections INSERT handler of the channel ch, for the payload n.
CorrectionInserted ==
    \E n \in BagToSet(inbox), ch \in channels, again \in BOOLEAN :
        /\ n.table = "corrections" /\ ch.topic = "corrections"
        /\ Delivered(n, again)
        /\ IF OwnRow(n, ch)
           THEN /\ toast' = "Correction is ready!"
                /\ isWaitingForCorrection' = WaitingAfterReady
                /\ IF ch.selectedExam = Null
                   THEN \* loadCorrection returns at once
                        /\ mode' = "correction"
                        /\ UNCHANGED <<isLoadingContent, tasks>>
                   ELSE /\ CanSpawn
                        /\ isLoadingContent' = TRUE
                        /\ tasks' = Spawn(loadCorrection_task(ch.selectedExam, "correction",
                                              "correctionInserted", [do |-> "setMode", mode |-> "correction"]))
                        /\ UNCHANGED mode
           ELSE UNCHANGED <<toast, isWaitingForCorrection, mode, isLoadingContent, tasks>>
        /\ last' = Step("correctionInserted", n.id)
        /\ kept' = IF OwnRow(n, ch) THEN Null ELSE kept
        /\ UNCHANGED <<authVars, resizeVars, storeVars, listVars, dashVars, subVars, shown,
                       selectedExam, examContent, correctionContent, editableContent,
                       correction, isCreatingNew, chatMessages, isSendingMessage, message>>

\* The AI workflow inserts an exam of teacher owner; the store announces it.
BackendInsertsExam ==
    \E owner \in Teachers, text \in Texts :
        LET row == Exam(NextId(dbExams), "T2", text, owner) IN
        /\ Len(dbExams) < MaxExams
        /\ dbExams' = <<row>> \o dbExams
        /\ Announce(Note("exams", row))
        /\ last' = Step("backend", "exams")
        /\ UNCHANGED <<authVars, resizeVars, dbCorrections, dbReports, forgeVars, dashVars, subVars,
                       toast, tasks, shown, kept>>

\* The exams INSERT handler of the channel ch, for the payload n, up to the
\* fetch of the complete row.
ExamInserted ==
    \E n \in BagToSet(inbox), ch \in channels, again \in BOOLEAN :
        /\ n.table = "exams" /\ ch.topic = "exams"
        /\ Delivered(n, again)
        /\ IF OwnRow(n, ch)
           THEN CanSpawn /\ tasks' = Spawn([h |-> "examInserted", id |-> n.id])
           ELSE UNCHANGED tasks
        /\ last' = Step("examInserted", n.id)
        /\ UNCHANGED <<authVars, resizeVars, storeVars, forgeVars, dashVars, subVars, toast, shown, kept>>

PrependExam_appended(row) == Append(exams, row)

\* setExams((prev) => [newExam, ...prev])
PrependExam(row) == <<row>> \o exams

\* The exams INSERT handler after the fetch: `data` is the row, or null.
ExamInserted_fetched ==
    \E t \in Running :
        /\ t.h = "examInserted"
        /\ \E res \in Outcomes(SelectExamById(t.id)) :
            /\ IF res.data # Null
               THEN /\ examContentCache' =
                           Put(examContentCache, Val(res.data).id, Val(res.data).content)
                    /\ exams' = PrependExam(Val(res.data))
                    /\ newExamId' = Some(Val(res.data).id)
                    /\ merged' = [merged EXCEPT ![t.id] = @ + 1]
               ELSE UNCHANGED <<examContentCache, exams, newExamId, merged>>
            /\ last' = Step("examInserted_fetched",
                            [id |-> t.id, data |-> res.data])
        /\ tasks' = Finish(t)
        /\ UNCHANGED <<authVars, resizeVars, storeVars, editorVars, chatVars, dashVars, subVars,
                       inbox, notes, toast, shown, kept, examListCache, loading,
                       initialLoadComplete>>

\* ------------------------------------------------------ handleFilesUploaded
Files == {"f1", "f2"}

Uploads == UNION {[1..n -> Files] : n \in 0..MaxFiles}

\* convertWordToMarkdown(file): the title and the text of the document.
convertWordToMarkdown(file) ==
    CASE file = "f1" -> [title |-> "T1", content |-> "a"]
      [] file = "f2" -> [title |-> "T2", content |-> "b"]

\* database.exams.create(data) as the store applies it: the row gets the next
\* id and the id of the authenticated user, and is announced.
database_exams_create(data) ==
    Exam(NextId(dbExams), data.title, data.content,
         IF user = Null THEN "" ELSE Val(user))

\* addExamToList(newExam) of a render whose list is closureExams.
addExamToList(newExam, closureExams) == <<newExam>> \o closureExams

\* updateExamInList(updatedExam) of a render whose list is closureExams.
updateExamInList(updatedExam, closureExams) ==
    [i \in DOMAIN closureExams |->
        IF closureExams[i].id = updatedExam.id THEN updatedExam ELSE closureExams[i]]

\* for (const { file } of files): the file of the iteration the call is in.
CurrentFile_first(t) == t.files[1]

CurrentFile(t) == t.files[t.i]

\* handleFilesUploaded(files) up to the first await.
handleFilesUploaded_start(files) ==
    /\ mountedForge
    /\ IF user = Null
       THEN /\ toast' = "Please sign in to upload files"
            /\ UNCHANGED tasks
       ELSE IF files = <<>>
       THEN /\ toast' = "Files processed successfully"
            /\ UNCHANGED tasks
       ELSE /\ CanSpawn
            /\ toast' = "Processing files..."
            /\ tasks' = Spawn([h |-> "handleFilesUploaded", pc |-> "convert",
                               files |-> files, i |-> 1, exams |-> exams,
                               made |-> <<>>, reply |-> Null])
    /\ last' = Step("handleFilesUploaded_start", files)
    /\ UNCHANGED <<authVars, resizeVars, storeVars, forgeVars, dashVars, subVars, noteVars, shown, kept>>

\* After `await convertWordToMarkdown(file)`: the conversion threw, or the
\* insert is sent; the store applies it or rejects it.
handleFilesUploaded_converted ==
    \E t \in Running, converted \in BOOLEAN, accepted \in BOOLEAN :
        /\ t.h = "handleFilesUploaded" /\ t.pc = "convert"
        /\ IF ~converted
           THEN /\ toast' = "Failed to process files"
                /\ tasks' = Finish(t)
                /\ last' = Step("handleFilesUploaded", [ok |-> FALSE, files |-> t.files,
                                                        made |-> t.made])
                /\ UNCHANGED <<dbExams, noteVars>>
           ELSE LET row == database_exams_create(convertWordToMarkdown(CurrentFile(t))) IN
                /\ IF accepted
                   THEN /\ Len(dbExams) < MaxExams
                        /\ dbExams' = <<row>> \o dbExams
                        /\ Announce(Note("exams", row))
                        /\ tasks' = Spawn([t EXCEPT !.pc = "create",
                                                    !.reply = Some(row)]) (-) SetToBag({t})
                   ELSE /\ tasks' = Spawn([t EXCEPT !.pc = "create"]) (-) SetToBag({t})
                        /\ UNCHANGED <<dbExams, noteVars>>
                /\ last' = Step("handleFilesUploaded_converted", t.i)
                /\ UNCHANGED toast
        /\ UNCHANGED <<authVars, resizeVars, dbCorrections, dbReports, forgeVars, dashVars, subVars,
                       shown, kept>>

\* After `await database.exams.create(...)`: it threw, or the exam is cached
\* and put in the list, and the loop goes on with the next file.
handleFilesUploaded_created ==
    \E t \in Running :
        /\ t.h = "handleFilesUploaded" /\ t.pc = "create"
        /\ IF t.reply = Null
           THEN /\ toast' = "Failed to process files"
                /\ tasks' = Finish(t)
                /\ last' = Step("handleFilesUploaded", [ok |-> FALSE, files |-> t.files,
                                                        made |-> t.made])
                /\ UNCHANGED <<exams, examContentCache, examListCache>>
           ELSE LET exam == Val(t.reply)
                    made == Append(t.made, exam)
                IN
                /\ examContentCache' = Put(examContentCache, exam.id, exam.content)
                /\ exams' = addExamToList(exam, t.exams)
                /\ examListCache' = addExamToList(exam, t.exams)
                /\ IF t.i < Len(t.files)
                   THEN /\ tasks' = Spawn([t EXCEPT !.pc = "convert", !.i = t.i + 1,
                                                    !.made = made, !.reply = Null])
                                    (-) SetToBag({t})
                        /\ last' = Step("handleFilesUploaded_created", exam.id)
                        /\ UNCHANGED toast
                   ELSE /\ toast' = "Files processed successfully"
                        /\ tasks' = Finish(t)
                        /\ last' = Step("handleFilesUploaded",
                                        [ok |-> TRUE, files |-> t.files, made |-> made])
        /\ UNCHANGED <<authVars, resizeVars, storeVars, editorVars, chatVars, dashVars, subVars,
                       noteVars, shown, kept, newExamId, loading, initialLoadComplete>>

\* ----------------------------------------------------------- handleExamDelete
\* handleExamDelete(examId): window.confirm, then database.exams.delete, which
\* the domain access layer does not define: the call throws inside the try, and
\* the catch shows the failure.
handleExamDelete(examId) ==
    \E confirmed \in BOOLEAN :
        /\ mountedForge
        /\ examId \in ListedIds \/ (EditorShown /\ Val(selectedExam).id = examId)
        /\ IF ~confirmed
           THEN UNCHANGED <<dbExams, forgeVars, subVars, toast, tasks>>
           ELSE IF "delete" \notin database_exams_ops
           THEN /\ toast' = "Failed to delete exam"
                /\ UNCHANGED <<dbExams, forgeVars, subVars, tasks>>
           ELSE /\ dbExams' = SelectSeq(dbExams, LAMBDA r : r.id # examId)
                /\ examContentCache' = Drop(examContentCache, examId)
                /\ exams' = SelectSeq(exams, LAMBDA r : r.id # examId)
                /\ examListCache' = SelectSeq(exams, LAMBDA r : r.id # examId)
                /\ IF selectedExam # Null /\ Val(selectedExam).id = examId
                   THEN /\ selectedExam' = Null /\ examContent' = ""
                        /\ correctionContent' = "" /\ correction' = Null
                        /\ editableContent' = "" /\ chatMessages' = <<>>
                        /\ mode' = "edit"
                        /\ SelectedExamChanged(Null)
                        /\ InitialLoad(TRUE, tasks)
                   ELSE UNCHANGED <<selectedExam, examContent, correctionContent,
                                    correction, editableContent, chatMessages, mode,
                                    subVars, tasks, loading, initialLoadComplete>>
                /\ toast' = "Exam deleted successfully"
                /\ UNCHANGED <<newExamId, isLoadingContent,
                               isCreatingNew, isSendingMessage, message,
                               isWaitingForCorrection>>
        /\ last' = Step("handleExamDelete",
                        [examId |-> examId, confirmed |-> confirmed,
                         selected |-> selectedExam # Null /\ Val(selectedExam).id = examId])
        /\ shown' = IF confirmed THEN Null ELSE shown
        /\ kept' = IF confirmed THEN Null ELSE kept
        /\ UNCHANGED <<authVars, resizeVars, dbCorrections, dbReports, dashVars, noteVars>>

\* ----------------------------------------------------------------- handleSave
\* if (error) throw error; return row: create, update and list of every table.
ThrowOrReturn(res) ==
    IF res.error # "" THEN Threw(res.error) ELSE Returned(res.data)

database_exams_update(res) == ThrowOrReturn(res)
database_corrections_update(res) == ThrowOrReturn(res)
database_corrections_create(res) == ThrowOrReturn(res)

\* teacher_id: (await supabase.auth.getUser()).data.user?.id
SessionUserId == IF user = Null THEN "" ELSE Val(user)

SaveRequest_create(m, sel, corr, text) ==
    [op |-> "corrections.create", id |-> sel.id, content |-> text]

\* The call handleSave makes in mode m for the selected exam sel, the loaded
\* correction corr and the edit buffer text.
SaveRequest(m, sel, corr, text) ==
    IF m = "edit" THEN [op |-> "exams.update", id |-> sel.id, content |-> text]
    ELSE IF corr # Null
    THEN [op |-> "corrections.update", id |-> Val(corr).id, content |-> text]
    ELSE [op |-> "corrections.create", id |-> sel.id, content |-> text]

\* .update({ content }).eq("id", id) on rows.
UpdateContent(rows, id, text) ==
    [i \in DOMAIN rows |->
        IF rows[i].id = id THEN [rows[i] EXCEPT !.content = text] ELSE rows[i]]

\* The store applies the request req of the signed-in user, and answers.
StoreApplies(req) ==
    CASE req.op = "exams.update" ->
            /\ dbExams' = IF \E i \in DOMAIN Visible(dbExams, user) :
                                Visible(dbExams, user)[i].id = req.id
                          THEN UpdateContent(dbExams, req.id, req.content)
                          ELSE dbExams
            /\ UNCHANGED <<dbCorrections, noteVars>>
      [] req.op = "corrections.update" ->
            /\ dbCorrections' = IF \E i \in DOMAIN Visible(dbCorrections, user) :
                                      Visible(dbCorrections, user)[i].id = req.id
                                THEN UpdateContent(dbCorrections, req.id, req.content)
                                ELSE dbCorrections
            /\ UNCHANGED <<dbExams, noteVars>>
      [] req.op = "corrections.create" ->
            LET row == Correction(NextId(dbCorrections), req.id, req.content,
                                  SessionUserId) IN
            /\ Len(dbCorrections) < MaxCorrections
            /\ dbCorrections' = <<row>> \o dbCorrections
            /\ Announce(Note("corrections", row))
            /\ UNCHANGED dbExams

\* .select().single() after the request req was applied.
StoreAnswers(req) ==
    CASE req.op = "exams.update" ->
            Single(SelectSeq(Visible(dbExams', user), LAMBDA r : r.id = req.id))
      [] req.op = "corrections.update" ->
            Single(SelectSeq(Visible(dbCorrections', user), LAMBDA r : r.id = req.id))
      [] req.op = "corrections.create" -> Single(<<Head(dbCorrections')>>)

\* handleSave up to its await.  The editor is rendered only with an exam
\* selected, so the handler's first line never returns.
handleSave_start ==
    \E reached \in BOOLEAN :
        /\ EditorShown /\ BagCardinality(tasks) < MaxSaving
        /\ IF selectedExam = Null
           THEN UNCHANGED <<storeVars, noteVars, tasks>>
                /\ last' = Step("handleSave_none", Null)
           ELSE LET req == SaveRequest(mode, Val(selectedExam), correction,
                                       editableContent) IN
                /\ IF reached
                   THEN /\ StoreApplies(req)
                        /\ tasks' = Spawn([h |-> "handleSave", req |-> req, mode |-> mode,
                                           exams |-> exams, res |-> StoreAnswers(req)])
                   ELSE /\ UNCHANGED <<dbExams, dbCorrections, noteVars>>
                        /\ tasks' = Spawn([h |-> "handleSave", req |-> req, mode |-> mode,
                                           exams |-> exams, res |-> Unreachable])
                /\ last' = Step("handleSave_start", [req |-> req, reached |-> reached])
        /\ shown' = Null /\ kept' = Null
        /\ UNCHANGED <<authVars, resizeVars, dbReports, forgeVars, dashVars, subVars, toast>>

ExamContentAfterFailure_applied(t) ==
    IF t.req.op = "exams.update" THEN t.req.content ELSE examContent

\* catch (error): the toast and nothing else; setExamContent(editableContent)
\* is after the await and is not reached.
ExamContentAfterFailure(t) == examContent

\* handleSave after its await.
handleSave_saved ==
    \E t \in Running :
        /\ t.h = "handleSave"
        /\ LET got == ThrowOrReturn(t.res) IN
           /\ IF got.threw
              THEN /\ toast' = IF t.mode = "edit" THEN "Failed to save exam"
                               ELSE "Failed to save correction"
                   /\ examContent' = ExamContentAfterFailure(t)
                   /\ UNCHANGED <<examContentCache, exams, examListCache,
                                  correction, correctionContent>>
              ELSE CASE t.req.op = "exams.update" ->
                        /\ examContent' = t.req.content
                        /\ examContentCache' =
                              Put(examContentCache, t.req.id, t.req.content)
                        /\ exams' = updateExamInList(Val(got.value), t.exams)
                        /\ examListCache' = updateExamInList(Val(got.value), t.exams)
                        /\ toast' = "Exam saved successfully"
                        /\ UNCHANGED <<correction, correctionContent>>
                     [] t.req.op = "corrections.update" ->
                        /\ correctionContent' = t.req.content
                        /\ toast' = "Correction saved successfully"
                        /\ UNCHANGED <<examContent, examContentCache, exams,
                                       examListCache, correction>>
                     [] t.req.op = "corrections.create" ->
                        /\ correction' = got.value
                        /\ correctionContent' = Val(got.value).content
                        /\ toast' = "Correction saved successfully"
                        /\ UNCHANGED <<examContent, examContentCache, exams,
                                       examListCache>>
           /\ last' = Step("handleSave", [req |-> t.req, ok |-> ~got.threw])
        /\ tasks' = Finish(t)
        /\ shown' = Null /\ kept' = Null
        /\ UNCHANGED <<authVars, resizeVars, storeVars, dashVars, subVars, noteVars, chatVars,
                       selectedExam, editableContent, mode, isLoadingContent,
                       isCreatingNew, newExamId, loading, initialLoadComplete>>

\* --------------------------------------------------------- handleTitleChange
\* The errors a write can be answered with: none, a rejection by the access
\* policy, a failed call.  The client returns them in { error }: the awaited
\* query does not throw.
WriteErrors == {"", "42501", "network"}

Titles == {"T9"}

UpdateTitle(rows, id, title) ==
    [i \in DOMAIN rows |->
        IF rows[i].id = id THEN [rows[i] EXCEPT !.title = title] ELSE rows[i]]

\* handleTitleChange(newTitle) up to its await: .update({ title }).eq("id", ...).
\* The editor is rendered only with an exam selected, so the first line never
\* returns.
handleTitleChange_start(newTitle) ==
    \E error \in WriteErrors :
        LET sel == Val(selectedExam) IN
        /\ EditorShown /\ BagCardinality(tasks) < MaxSaving
        /\ dbExams' = IF error = "" /\ Some(sel.teacher_id) = user
                      THEN UpdateTitle(dbExams, sel.id, newTitle) ELSE dbExams
        /\ tasks' = Spawn([h |-> "handleTitleChange", title |-> newTitle, sel |-> sel,
                           exams |-> exams, res |-> [data |-> Null, error |-> error]])
        /\ last' = Step("handleTitleChange_start", [title |-> newTitle, error |-> error])
        /\ UNCHANGED <<authVars, resizeVars, dbCorrections, dbReports, forgeVars, dashVars, subVars,
                       noteVars, toast, shown, kept>>

\* handleTitleChange after the await: the handler does not read the answer.
handleTitleChange_updated ==
    \E t \in Running :
        /\ t.h = "handleTitleChange"
        /\ LET updatedExam == [t.sel EXCEPT !.title = t.title] IN
           /\ exams' = updateExamInList(updatedExam, t.exams)
           /\ examListCache' = updateExamInList(updatedExam, t.exams)
           /\ selectedExam' = Some(updatedExam)
           /\ SelectedExamChanged(Some(updatedExam))
        /\ InitialLoad(TRUE, Finish(t))
        /\ toast' = "Title updated successfully"
        /\ last' = Step("handleTitleChange", [title |-> t.title, error |-> t.res.error])
        /\ UNCHANGED <<authVars, resizeVars, storeVars, dashVars, noteVars, chatVars, shown, kept,
                       examContent, correctionContent, editableContent, correction, mode,
                       isLoadingContent, isCreatingNew, examContentCache, newExamId>>

\* --------------------------------------------------------- handleSendMessage
Inputs == {"", " ", "q"}

\* message.trim()
Trim(text) == IF text = " " THEN "" ELSE text

UserMessage(text) == [content |-> text, isUser |-> TRUE, id |-> ""]
TypingMessage == [content |-> "...", isUser |-> FALSE, id |-> "typing"]
AiMessage(text) == [content |-> text, isUser |-> FALSE, id |-> ""]

RemoveTyping_kept(msgs) == msgs

\* prev.filter((msg) => msg.id !== "typing")
RemoveTyping(msgs) == SelectSeq(msgs, LAMBDA m : m.id # "typing")

\* The chat box is rendered.
ChatShown ==
    /\ mountedForge
    /\ selectedExam # Null \/ isCreatingNew
    /\ mode # "correction" \/ correction # Null

\* The user types in the chat input: setMessage(text).
setMessage(text) ==
    /\ ChatShown
    /\ message # text
    /\ message' = text
    /\ last' = Step("setMessage", text)
    /\ UNCHANGED <<authVars, resizeVars, storeVars, editorVars, listVars, dashVars, subVars,
                   noteVars, toast, tasks, shown, kept, chatMessages, isSendingMessage,
                   isWaitingForCorrection>>

\* The JSON body of the webhook request of handleSendMessage.
ChatRequest ==
    [examId |-> IF selectedExam = Null THEN Null ELSE Some(Val(selectedExam).id),
     teacherId |-> Val(user),
     message |-> Trim(message),
     mode |-> IF isCreatingNew THEN "create" ELSE mode,
     correctionId |-> IF correction = Null THEN Null ELSE Some(Val(correction).id)]

\* handleSendMessage up to `await fetch(...)`.
handleSendMessage_start ==
    /\ ChatShown /\ CanSpawn
    /\ ~(Trim(message) = "" \/ (selectedExam = Null /\ ~isCreatingNew) \/ user = Null)
    /\ Len(chatMessages) + 2 <= MaxChat
    /\ chatMessages' = chatMessages \o <<UserMessage(message), TypingMessage>>
    /\ message' = ""
    /\ isSendingMessage' = TRUE
    /\ tasks' = Spawn([h |-> "handleSendMessage", pc |-> "fetch", body |-> ChatRequest,
                       isCreatingNew |-> isCreatingNew, mode |-> mode,
                       selectedExam |-> selectedExam, exams |-> exams,
                       data |-> Null])
    /\ last' = Step("handleSendMessage_start", ChatRequest.mode)
    /\ UNCHANGED <<authVars, resizeVars, storeVars, editorVars, listVars, dashVars, subVars,
                   noteVars, toast, shown, kept, isWaitingForCorrection>>

\* What the workflow behind the webhook answers to the request body: a failure
\* (no response, or a status that is not ok), an answer, or an answer naming the
\* exam it has created.
Answers(body) ==
    {[ok |-> FALSE, output |-> "", examId |-> Null, correctionId |-> Null],
     [ok |-> TRUE, output |-> "r", examId |-> Null, correctionId |-> Null]}
    \cup (IF body.mode = "create" /\ Len(dbExams) < MaxExams
          THEN {[ok |-> TRUE, output |-> "r", examId |-> Some(NextId(dbExams)),
                 correctionId |-> Null]}
          ELSE {})

\* handleSendMessage after `await fetch(...)` and `await response.json()`.
handleSendMessage_responded ==
    \E t \in Running :
        /\ t.h = "handleSendMessage" /\ t.pc = "fetch"
        /\ \E data \in Answers(t.body) :
            /\ IF data.examId # Null
               THEN LET row == Exam(Val(data.examId), "T2", "b", t.body.teacherId) IN
                    /\ dbExams' = <<row>> \o dbExams
                    /\ Announce(Note("exams", row))
               ELSE UNCHANGED <<dbExams, noteVars>>
            /\ IF ~data.ok
               THEN \* catch, finally
                    /\ toast' = "Failed to get AI response"
                    /\ chatMessages' = RemoveTyping(chatMessages)
                    /\ isSendingMessage' = FALSE
                    /\ tasks' = Finish(t)
                    /\ last' = Step("handleSendMessage", "webhook failed")
               ELSE /\ chatMessages' =
                           Append(RemoveTyping(chatMessages), AiMessage(data.output))
                    /\ UNCHANGED toast
                    /\ IF t.isCreatingNew /\ data.examId # Null
                       THEN /\ tasks' = Spawn([t EXCEPT !.pc = "get", !.data = Some(data)])
                                        (-) SetToBag({t})
                            /\ UNCHANGED isSendingMessage
                            /\ last' = Step("handleSendMessage_responded", "exam")
                       ELSE \* no correction id is answered: finally
                            /\ isSendingMessage' = FALSE
                            /\ tasks' = Finish(t)
                            /\ last' = Step("handleSendMessage", "answered")
        /\ UNCHANGED <<authVars, resizeVars, dbCorrections, dbReports, editorVars, listVars, dashVars,
                       subVars, shown, kept, message, isWaitingForCorrection>>

\* handleSendMessage after `await database.exams.get(data.examId)`.
handleSendMessage_examFetched ==
    \E t \in Running :
        /\ t.h = "handleSendMessage" /\ t.pc = "get"
        /\ \E res \in Outcomes(SelectExamById(Val(Val(t.data).examId))) :
            LET got == database_exams_get(res) IN
            /\ IF got.threw
               THEN /\ toast' = "Failed to get AI response"
                    /\ chatMessages' = RemoveTyping(chatMessages)
                    /\ UNCHANGED <<selectedExam, examContent, editableContent,
                                   examContentCache, exams, examListCache, isCreatingNew,
                                   subVars>>
                    /\ InitialLoad(FALSE, Finish(t))
                    /\ last' = Step("handleSendMessage", "exam fetch failed")
               ELSE LET exam == Val(got.value) IN
                    /\ selectedExam' = got.value
                    /\ examContent' = exam.content
                    /\ editableContent' = exam.content
                    /\ examContentCache' = Put(examContentCache, exam.id, exam.content)
                    /\ exams' = addExamToList(exam, t.exams)
                    /\ examListCache' = addExamToList(exam, t.exams)
                    /\ isCreatingNew' = FALSE
                    /\ toast' = "New exam created!"
                    /\ SelectedExamChanged(got.value)
                    /\ InitialLoad(TRUE, Finish(t))
                    /\ UNCHANGED chatMessages
                    /\ last' = Step("handleSendMessage", "exam created")
        /\ isSendingMessage' = FALSE
        /\ shown' = Null /\ kept' = Null
        /\ UNCHANGED <<authVars, resizeVars, storeVars, dashVars, noteVars, correctionContent,
                       correction, mode, isLoadingContent, newExamId,
                       message, isWaitingForCorrection>>

\* ---------------------------------------------------- handleCreateCorrection
\* The JSON body of the webhook request of handleCreateCorrection.
CorrectionRequest ==
    [examId |-> Some(Val(selectedExam).id),
     teacherId |-> Val(user),
     mode |-> "create_correction",
     message |-> "Please create a detailed correction"]

\* handleCreateCorrection up to `await fetch(...)`: the button is in the editor.
handleCreateCorrection_start ==
    /\ EditorShown /\ CanSpawn
    /\ IF selectedExam = Null \/ user = Null
       THEN /\ UNCHANGED <<isSendingMessage, isWaitingForCorrection, toast, tasks>>
            /\ last' = Step("handleCreateCorrection_none", Null)
       ELSE /\ isSendingMessage' = TRUE
            /\ isWaitingForCorrection' = TRUE
            /\ toast' = "Correction request submitted!"
            /\ tasks' = Spawn([h |-> "handleCreateCorrection", pc |-> "fetch",
                               body |-> CorrectionRequest])
            /\ last' = Step("handleCreateCorrection_start", Val(selectedExam).id)
    /\ UNCHANGED <<authVars, resizeVars, storeVars, editorVars, listVars, dashVars, subVars,
                   noteVars, shown, kept, chatMessages, message>>

\* handleCreateCorrection after `await fetch(...)`: response.ok, or not (no
\* response, or a status that is not ok).
handleCreateCorrection_responded ==
    \E t \in Running, ok \in BOOLEAN :
        /\ t.h = "handleCreateCorrection"
        /\ IF ok
           THEN UNCHANGED <<toast, isWaitingForCorrection>>
           ELSE /\ toast' = "Failed to create correction"
                /\ isWaitingForCorrection' = FALSE
        /\ isSendingMessage' = FALSE
        /\ tasks' = Finish(t)
        /\ last' = Step("handleCreateCorrection", [examId |-> Val(t.body.examId), ok |-> ok])
        /\ UNCHANGED <<authVars, resizeVars, storeVars, editorVars, listVars, dashVars, subVars,
                       noteVars, shown, kept, chatMessages, message>>

\* ------------------------------------------------------------- startResize
MaxListeners == 2
ScreenRows == 20
RowHeight == 50

\* e.clientY of the mouse events.
ClientYs == {RowHeight * k : k \in 0..ScreenRows}

Math_max(a, b) == IF a >= b THEN a ELSE b
Math_min(a, b) == IF a <= b THEN a ELSE b

NewHeight_unclamped(clientY) == startHeight + (startResizeY - clientY)

\* Math.max(200, Math.min(800, startHeight.current + delta)), with
\* delta = startResizeY.current - e.clientY
NewHeight(clientY) ==
    Math_max(200, Math_min(800, startHeight + (startResizeY - clientY)))

\* startResize(e): mouse down on the handle of the chat box; the refs are
\* written and a pair of listeners is added to the document.
startResize(clientY) ==
    /\ ChatShown /\ listeners < MaxListeners
    /\ startResizeY' = clientY
    /\ startHeight' = chatHeight
    /\ listeners' = listeners + 1
    /\ last' = Step("startResize", clientY)
    /\ UNCHANGED <<authVars, storeVars, forgeVars, dashVars, subVars, noteVars, toast,
                   tasks, shown, kept, chatHeight>>

\* handleMouseMove(e): every listener on the document reads the same refs.
handleMouseMove(clientY) ==
    /\ mountedForge /\ listeners > 0
    /\ chatHeight' = NewHeight(clientY)
    /\ last' = Step("handleMouseMove", clientY)
    /\ UNCHANGED <<authVars, storeVars, forgeVars, dashVars, subVars, noteVars, toast,
                   tasks, shown, kept, startResizeY, startHeight, listeners>>

\* handleMouseUp(): each listener pair removes itself.
handleMouseUp ==
    /\ mountedForge /\ listeners > 0
    /\ listeners' = 0
    /\ last' = Step("handleMouseUp", Null)
    /\ UNCHANGED <<authVars, storeVars, forgeVars, dashVars, subVars, noteVars, toast,
                   tasks, shown, kept, chatHeight, startResizeY, startHeight>>

\* ---------------------------------------------------------------- Dashboard
DashEffects(u, pupil, report, run3) ==
    /\ Effects(u, selectedExam, pupil, report, FALSE, FALSE, run3)
    /\ UNCHANGED mountedForge

\* .select("id, requested_at, report_title").eq("pupil_id", pupilId)
SelectReportsByPupil(pupilId) ==
    LET rows == SelectSeq(Visible(dbReports, user), LAMBDA r : r.pupil_id = pupilId)
    IN  [i \in DOMAIN rows |-> [id |-> rows[i].id, report_title |-> rows[i].report_title]]

\* What the useReport hook can return for the current report.
HookStates == {"idle", "loading", "error", "report"}

renderReportContent_and(useReport) ==
    IF selectedPupilId = "" THEN "select a student"
    ELSE IF currentReportId = Null /\ availableReports = <<>> THEN "no reports"
    ELSE IF useReport = "loading" THEN "loading"
    ELSE IF useReport = "error" THEN "error"
    ELSE IF useReport = "idle" THEN "nothing"
    ELSE "report"

\* What renderReportContent shows when the hook returns useReport.
renderReportContent(useReport) ==
    IF selectedPupilId = "" THEN "select a student"
    ELSE IF currentReportId = Null \/ availableReports = <<>> THEN "no reports"
    ELSE IF useReport = "loading" THEN "loading"
    ELSE IF useReport = "error" THEN "error"
    ELSE IF useReport = "idle" THEN "nothing"
    ELSE "report"

\* fetchReports(pupilId) of a render whose current report is report, up to the
\* query; `next` is what its caller does once it returns.
fetchReports_task(pupilId, report, next) ==
    [h |-> "fetchReports", pupilId |-> pupilId, currentReportId |-> report,
     next |-> next]

\* Dashboard mounts: fetchReports("") returns at once, the reports effect runs.
MountDash ==
    /\ ~mountedDash /\ ~mountedForge
    /\ mountedDash' = TRUE
    /\ DashEffects(user, selectedPupilId, currentReportId, TRUE)
    /\ last' = Step("mountDash", Null)
    /\ UNCHANGED <<authVars, resizeVars, storeVars, forgeVars, dashVars, noteVars, toast, tasks,
                   shown, kept>>

\* handlePupilChange: the selected pupil changes, and both effects that depend
\* on it run: fetchReports(selectedPupilId) and the reports subscription.
handlePupilChange(value) ==
    /\ mountedDash
    /\ value # selectedPupilId
    /\ selectedPupilId' = value
    /\ IF value = ""
       THEN UNCHANGED tasks
       ELSE CanSpawn /\ tasks' = Spawn(fetchReports_task(value, currentReportId,
                                                         [do |-> "return"]))
    /\ DashEffects(user, value, currentReportId, TRUE)
    /\ last' = Step("handlePupilChange", value)
    /\ UNCHANGED <<mountedDash, authVars, resizeVars, storeVars, forgeVars, noteVars, toast, shown, kept,
                   currentReportId, availableReports, activeTab>>

\* The report dropdown: setCurrentReportId(id) for a listed report.
setCurrentReportId(id) ==
    /\ mountedDash
    /\ \E i \in DOMAIN availableReports : availableReports[i].id = id
    /\ currentReportId # Some(id)
    /\ currentReportId' = Some(id)
    /\ last' = Step("setCurrentReportId", id)
    /\ UNCHANGED <<authVars, resizeVars, storeVars, forgeVars, subVars, noteVars, toast, tasks,
                   shown, kept, selectedPupilId, availableReports, activeTab>>

ApplyReports_current(t, data) ==
    IF t.pupilId = selectedPupilId THEN data ELSE availableReports

\* setAvailableReports(data || []) of the call t of fetchReports: nothing
\* tells whether the pupil of the call is still the selected one.
ApplyReports(t, data) == data

\* fetchReports after the query, then the rest of its caller (the reports
\* INSERT handler goes on with setCurrentReportId and setActiveTab).
fetchReports_fetched ==
    \E t \in Running, failed \in BOOLEAN :
        /\ t.h = "fetchReports"
        /\ LET data == SelectReportsByPupil(t.pupilId)
               first == IF ~failed /\ data # <<>> /\ t.currentReportId = Null
                        THEN Some(data[1].id) ELSE currentReportId
               report == IF t.next.do = "inserted" THEN Some(t.next.id) ELSE first
           IN
           /\ availableReports' = IF failed THEN availableReports
                                 ELSE ApplyReports(t, data)
           /\ currentReportId' = report
           /\ activeTab' = IF t.next.do = "inserted" THEN "reports" ELSE activeTab
           /\ toast' = IF t.next.do = "inserted" THEN "Report Ready!"
                       ELSE IF failed THEN "Failed to load reports" ELSE toast
           /\ last' = Step("fetchReports", [pupilId |-> t.pupilId, failed |-> failed,
                                            data |-> data, next |-> t.next.do])
        /\ tasks' = Finish(t)
        /\ UNCHANGED <<authVars, resizeVars, storeVars, forgeVars, subVars, noteVars, shown, kept,
                       selectedPupilId>>

\* The AI workflow inserts a report on a pupil; the store announces it.
BackendInsertsReport ==
    \E pupil \in Pupils, owner \in Teachers :
        LET row == Report(NextId(dbReports), pupil, "R", owner) IN
        /\ Len(dbReports) < MaxReports
        /\ dbReports' = <<row>> \o dbReports
        /\ Announce(Note("reports", row))
        /\ last' = Step("backend", "reports")
        /\ UNCHANGED <<authVars, resizeVars, dbExams, dbCorrections, forgeVars, dashVars, subVars,
                       toast, tasks, shown, kept>>

\* The reports INSERT handler of the channel ch, for the payload n: it awaits
\* the fetchReports of its render, then shows the new report.
ReportInserted ==
    \E n \in BagToSet(inbox), ch \in channels, again \in BOOLEAN :
        /\ n.table = "reports" /\ ch.topic = "reports"
        /\ Delivered(n, again)
        /\ IF ~OwnRow(n, ch)
           THEN \* the filter of the subscription keeps the row from the handler
                UNCHANGED <<currentReportId, activeTab, toast, tasks>>
           ELSE IF ch.selectedPupilId = ""
           THEN \* fetchReports returns at once
                /\ currentReportId' = Some(n.id)
                /\ activeTab' = "reports"
                /\ toast' = "Report Ready!"
                /\ UNCHANGED tasks
           ELSE /\ CanSpawn
                /\ tasks' = Spawn(fetchReports_task(ch.selectedPupilId, ch.currentReportId,
                                                    [do |-> "inserted", id |-> n.id]))
                /\ UNCHANGED <<currentReportId, activeTab, toast>>
        /\ last' = Step("reportInserted", n.id)
        /\ UNCHANGED <<authVars, resizeVars, storeVars, forgeVars, subVars, shown, kept, selectedPupilId,
                       availableReports>>

\* handleDeleteReport up to its await: window.confirm, then
\* .delete().eq("id", currentReportId).
handleDeleteReport_start ==
    \E confirmed \in BOOLEAN, error \in WriteErrors :
        /\ mountedDash
        /\ IF currentReportId = Null \/ ~confirmed
           THEN /\ UNCHANGED <<dbReports, tasks>>
                /\ last' = Step("handleDeleteReport_none", confirmed)
           ELSE /\ BagCardinality(tasks) < MaxSaving
                /\ dbReports' =
                       IF error = ""
                       THEN SelectSeq(dbReports, LAMBDA r :
                                ~(r.id = Val(currentReportId) /\ Some(r.teacher_id) = user))
                       ELSE dbReports
                /\ tasks' = Spawn([h |-> "handleDeleteReport", pupilId |-> selectedPupilId,
                                   currentReportId |-> currentReportId,
                                   res |-> [data |-> Null, error |-> error]])
                /\ last' = Step("handleDeleteReport_start", error)
        /\ UNCHANGED <<authVars, resizeVars, dbExams, dbCorrections, forgeVars, dashVars, subVars,
                       noteVars, toast, shown, kept>>

\* handleDeleteReport after the await: on success fetchReports(selectedPupilId)
\* is started and not awaited.
handleDeleteReport_deleted ==
    \E t \in Running :
        /\ t.h = "handleDeleteReport"
        /\ IF t.res.error # ""
           THEN /\ toast' = "Failed to delete report"
                /\ tasks' = Finish(t)
           ELSE /\ toast' = "Report deleted successfully"
                /\ tasks' = IF t.pupilId = "" THEN Finish(t)
                            ELSE Finish(t) (+) SetToBag({fetchReports_task(
                                     t.pupilId, t.currentReportId, [do |-> "return"])})
        /\ last' = Step("handleDeleteReport", [error |-> t.res.error])
        /\ UNCHANGED <<authVars, resizeVars, storeVars, forgeVars, dashVars, subVars, noteVars,
                       shown, kept>>

UpdateReportTitle(rows, id, title) ==
    [i \in DOMAIN rows |->
        IF rows[i].id = id THEN [rows[i] EXCEPT !.report_title = title] ELSE rows[i]]

\* handleUpdateTitle(newTitle) up to its await:
\* .update({ report_title }).eq("id", currentReportId).
handleUpdateTitle_start(newTitle) ==
    \E error \in WriteErrors :
        /\ mountedDash
        /\ IF currentReportId = Null
           THEN /\ UNCHANGED <<dbReports, tasks>>
                /\ last' = Step("handleUpdateTitle_none", newTitle)
           ELSE /\ BagCardinality(tasks) < MaxSaving
                /\ dbReports' =
                       IF error = "" /\ \E i \in DOMAIN Visible(dbReports, user) :
                                            Visible(dbReports, user)[i].id = Val(currentReportId)
                       THEN UpdateReportTitle(dbReports, Val(currentReportId), newTitle)
                       ELSE dbReports
                /\ tasks' = Spawn([h |-> "handleUpdateTitle", title |-> newTitle,
                                   currentReportId |-> Val(currentReportId),
                                   res |-> [data |-> Null, error |-> error]])
                /\ last' = Step("handleUpdateTitle_start", error)
        /\ UNCHANGED <<authVars, resizeVars, dbExams, dbCorrections, forgeVars, dashVars, subVars,
                       noteVars, toast, shown, kept>>

\* handleUpdateTitle after the await.
handleUpdateTitle_updated ==
    \E t \in Running :
        /\ t.h = "handleUpdateTitle"
        /\ IF t.res.error # ""
           THEN /\ toast' = "Failed to update report title"
                /\ UNCHANGED availableReports
           ELSE /\ availableReports' =
                       UpdateReportTitle(availableReports, t.currentReportId, t.title)
                /\ toast' = "Report title updated"
        /\ tasks' = Finish(t)
        /\ last' = Step("handleUpdateTitle", [error |-> t.res.error])
        /\ UNCHANGED <<authVars, resizeVars, storeVars, forgeVars, subVars, noteVars, shown, kept,
                       selectedPupilId, currentReportId, activeTab>>

NextDash ==
    \/ MountDash
    \/ \E value \in Pupils \cup {""} : handlePupilChange(value)
    \/ \E id \in 1..MaxReports : setCurrentReportId(id)
    \/ fetchReports_fetched
    \/ BackendInsertsReport
    \/ ReportInserted

SpecDash == InitDash /\ [][NextDash]_vars

\* ------------------------------------------------- unmounting, the session
ForgeHandlers == {"loadExams", "handleExamSelect", "loadCorrection", "examInserted",
                  "handleFilesUploaded", "handleSendMessage"}

\* Handlers whose continuation only sets the state of its component instance.
LocalHandlers == {"loadExams", "handleExamSelect", "loadCorrection", "examInserted",
                  "fetchReports"}

Without(handlers) ==
    [t \in {x \in Running : x.h \notin handlers} |-> tasks[t]]

OpenedBy(topics) == {c \in channels : c.topic \in topics}

\* The instance is gone: the next mount constructs the state anew.
ForgeDiscarded ==
    /\ exams' = <<>> /\ selectedExam' = Null
    /\ examContent' = "" /\ correctionContent' = "" /\ editableContent' = ""
    /\ correction' = Null /\ mode' = "edit"
    /\ loading' = TRUE /\ isLoadingContent' = FALSE /\ isCreatingNew' = FALSE
    /\ isWaitingForCorrection' = FALSE
    /\ chatMessages' = <<>> /\ isSendingMessage' = FALSE /\ message' = ""
    /\ newExamId' = Null
    /\ examContentCache' = <<>> /\ examListCache' = <<>>
    /\ initialLoadComplete' = FALSE
    /\ chatHeight' = InitialHeight /\ startResizeY' = 0 /\ startHeight' = 0
    /\ listeners' = 0

DashDiscarded ==
    /\ selectedPupilId' = "" /\ currentReportId' = Null /\ availableReports' = <<>>
    /\ activeTab' = "chat"

ForgeCleanups_first(chs) == removeChannel(chs, corrChannel)

\* The cleanups of the two effects of ExerciseForge (lines 95-97, 135-137).
ForgeCleanups(chs) == removeChannel(removeChannel(chs, corrChannel), examsChannel)

\* ExerciseForge unmounts: the cleanups run and the instance is gone, so what
\* its pending continuations set is discarded; a later mount constructs a new
\* instance.
UnmountForge ==
    /\ mountedForge
    /\ \A t \in Running : t.h \in ForgeHandlers => t.h \in LocalHandlers
    /\ mountedForge' = FALSE
    /\ channels' = ForgeCleanups(channels)
    /\ corrChannel' = Null /\ examsChannel' = Null
    /\ tasks' = Without(ForgeHandlers)
    /\ ForgeDiscarded
    /\ last' = Step("unmountForge", Cardinality(OpenedBy({"corrections", "exams"})))
    /\ shown' = Null /\ kept' = Null
    /\ UNCHANGED <<authVars, storeVars, dashVars, noteVars, toast, mountedDash,
                   reportsChannel>>

\* Dashboard unmounts.
UnmountDash ==
    /\ mountedDash
    /\ mountedDash' = FALSE
    /\ channels' = removeChannel(channels, reportsChannel)
    /\ reportsChannel' = Null
    /\ tasks' = Without({"fetchReports"})
    /\ DashDiscarded
    /\ last' = Step("unmountDash", Cardinality(OpenedBy({"reports"})))
    /\ UNCHANGED <<authVars, resizeVars, storeVars, forgeVars, noteVars, toast, shown, kept, mountedForge,
                   corrChannel, examsChannel>>

\* useAuth: the session starts or ends; the effects that depend on the user id
\* run again in the mounted screens.
AuthChanges ==
    \E u \in {Null} \cup {Some(t) : t \in Teachers} :
        /\ u # user
        /\ user' = u
        /\ Effects(u, selectedExam, selectedPupilId, currentReportId,
                   mountedForge, mountedForge, mountedDash)
        /\ InitialLoad(mountedForge, tasks)
        /\ last' = Step("useAuth", u)
        /\ UNCHANGED <<storeVars, editorVars, chatVars, dashVars, noteVars, toast, shown,
                       kept, exams, examContentCache, examListCache, newExamId,
                       mountedForge, mountedDash, resizeVars>>

InitSub == InitWith({Null, Some("t1")}, {<<Exam(1, "T1", "a", "t1")>>})

\* The subscriptions over the life of the two screens.
NextSub ==
    \/ MountForge
    \/ UnmountForge
    \/ MountDash
    \/ UnmountDash
    \/ AuthChanges
    \/ loadExams_verified
    \/ loadExams_selected
    \/ handleExamSelect_null
    \/ \E examId \in ExamIds : handleExamSelect_start(examId)
    \/ handleExamSelect_fetched
    \/ \E value \in Pupils \cup {""} : handlePupilChange(value)
    \/ fetchReports_fetched
    \/ BackendInsertsExam
    \/ ExamInserted
    \/ ExamInserted_fetched

SpecSub == InitSub /\ [][NextSub]_vars

\* ------------------------------------------------------------ the exam list
\* The exam list under the change stream.
NextList ==
    \/ MountForge
    \/ loadExams_verified
    \/ loadExams_selected
    \/ BackendInsertsExam
    \/ ExamInserted
    \/ ExamInserted_fetched

SpecList == Init /\ [][NextList]_vars

\* The exam list under uploads.
NextUpload ==
    \/ MountForge
    \/ loadExams_verified
    \/ loadExams_selected
    \/ \E files \in Uploads : handleFilesUploaded_start(files)
    \/ handleFilesUploaded_converted
    \/ handleFilesUploaded_created
    \/ BackendInsertsExam

SpecUpload == Init /\ [][NextUpload]_vars

\* ----------------------------------------------------------------- the chat
NextChat ==
    \/ MountForge
    \/ loadExams_verified
    \/ loadExams_selected
    \/ handleExamSelect_null
    \/ \E text \in Inputs : setMessage(text)
    \/ handleSendMessage_start
    \/ handleSendMessage_responded
    \/ handleSendMessage_examFetched

SpecChat == Init /\ [][NextChat]_vars

\* ------------------------------------------------------------ the editor
NextEditor ==
    \/ MountForge
    \/ loadExams_verified
    \/ loadExams_selected
    \/ handleExamSelect_null
    \/ \E examId \in ExamIds : handleExamSelect_start(examId)
    \/ handleExamSelect_fetched
    \/ \E newMode \in Modes : handleToggleMode(newMode)
    \/ \E text \in Texts \cup {""} : setEditableContent(text)
    \/ loadCorrection_fetched
    \/ \E examId \in ExamIds : handleExamDelete(examId)
    \/ BackendInsertsCorrection
    \/ CorrectionInserted

SpecEditor == Init /\ [][NextEditor]_vars

\* ------------------------------------------------------------------ saving
\* What the user types before a save.
Typed == {"c"}

NextSave ==
    \/ MountForge
    \/ loadExams_verified
    \/ loadExams_selected
    \/ \E examId \in ExamIds : handleExamSelect_start(examId)
    \/ handleExamSelect_fetched
    \/ \E newMode \in Modes : handleToggleMode(newMode)
    \/ \E text \in Typed : setEditableContent(text)
    \/ loadCorrection_fetched
    \/ handleSave_start
    \/ handleSave_saved

InitSave == InitWith({Some("t1")}, {<<Exam(1, "T1", "a", "t1")>>})

SpecSave == InitSave /\ [][NextSave]_vars

\* ---------------------------------------------------------- the first load
\* ExerciseForge over its mounts, with the session and the selection changing.
NextLoad ==
    \/ MountForge
    \/ UnmountForge
    \/ AuthChanges
    \/ loadExams_verified
    \/ loadExams_selected
    \/ \E examId \in ExamIds : handleExamSelect_start(examId)
    \/ handleExamSelect_fetched

\* The calls loadExams awaits settle: each of its continuations runs.
SpecLoad ==
    /\ InitSub /\ [][NextLoad]_vars
    /\ WF_tasks(loadExams_verified) /\ WF_tasks(loadExams_selected)

\* -------------------------------------------------------- the change stream
\* The inserts the store announces: those into a table with a subscriber.
Subscribed(topic) == \E ch \in channels : ch.topic = topic

ExamAnnounced == Subscribed("exams") /\ BackendInsertsExam

CorrectionAnnounced == Subscribed("corrections") /\ BackendInsertsCorrection

ReportAnnounced == Subscribed("reports") /\ BackendInsertsReport

\* Both screens under notifications for rows of every teacher.
NextStream ==
    \/ MountForge
    \/ MountDash
    \/ loadExams_verified
    \/ loadExams_selected
    \/ \E value \in Pupils : handlePupilChange(value)
    \/ fetchReports_fetched
    \/ ExamAnnounced
    \/ CorrectionAnnounced
    \/ ReportAnnounced
    \/ ExamInserted
    \/ ExamInserted_fetched
    \/ CorrectionInserted
    \/ ReportInserted

SpecStream == InitSave /\ [][NextStream]_vars

\* ------------------------------------------------------------- the writes
\* The handlers of both screens that write to the store.
NextWrites ==
    \/ MountForge
    \/ MountDash
    \/ loadExams_verified
    \/ loadExams_selected
    \/ \E examId \in ExamIds : handleExamSelect_start(examId)
    \/ handleExamSelect_fetched
    \/ handleSave_start
    \/ handleSave_saved
    \/ \E newTitle \in Titles : handleTitleChange_start(newTitle)
    \/ handleTitleChange_updated
    \/ \E value \in Pupils : handlePupilChange(value)
    \/ fetchReports_fetched
    \/ ReportAnnounced
    \/ handleDeleteReport_start
    \/ handleDeleteReport_deleted
    \/ \E newTitle \in Titles : handleUpdateTitle_start(newTitle)
    \/ handleUpdateTitle_updated

SpecWrites == InitSave /\ [][NextWrites]_vars

\* -------------------------------------------------------------- the caches
\* Another session of the teacher saves an exam.
BackendUpdatesExam ==
    \E i \in DOMAIN dbExams, text \in Texts :
        /\ dbExams[i].content # text
        /\ dbExams' = UpdateContent(dbExams, dbExams[i].id, text)
        /\ last' = Step("backend", "exams.update")
        /\ UNCHANGED <<authVars, resizeVars, dbCorrections, dbReports, forgeVars, dashVars, subVars,
                       noteVars, toast, tasks, shown, kept>>

\* Selections while the store changes under the caches.
NextCache ==
    \/ MountForge
    \/ loadExams_verified
    \/ loadExams_selected
    \/ handleExamSelect_null
    \/ \E examId \in ExamIds : handleExamSelect_start(examId)
    \/ handleExamSelect_fetched
    \/ BackendInsertsExam
    \/ BackendUpdatesExam

SpecCache == Init /\ [][NextCache]_vars

\* ------------------------------------------------------------ the failures
\* The handlers whose awaited calls can fail: the first load, the chat and the
\* report list.
NextRetry ==
    \/ MountForge
    \/ MountDash
    \/ loadExams_verified
    \/ loadExams_selected
    \/ handleExamSelect_null
    \/ \E text \in Inputs : setMessage(text)
    \/ handleSendMessage_start
    \/ handleSendMessage_responded
    \/ handleSendMessage_examFetched
    \/ \E value \in Pupils \cup {""} : handlePupilChange(value)
    \/ fetchReports_fetched

SpecRetry == Init /\ [][NextRetry]_vars

\* -------------------------------------------------------------- the webhook
\* The two handlers that call the AI webhook.
NextWebhook ==
    \/ MountForge
    \/ loadExams_verified
    \/ loadExams_selected
    \/ handleExamSelect_null
    \/ \E examId \in ExamIds : handleExamSelect_start(examId)
    \/ handleExamSelect_fetched
    \/ \E text \in Inputs : setMessage(text)
    \/ handleSendMessage_start
    \/ handleSendMessage_responded
    \/ handleSendMessage_examFetched
    \/ handleCreateCorrection_start
    \/ handleCreateCorrection_responded

SpecWebhook == InitSave /\ [][NextWebhook]_vars

\* ------------------------------------------------- the client's own inserts
\* The exams this client creates by upload are announced to its own channel.
NextOwn ==
    \/ MountForge
    \/ loadExams_verified
    \/ loadExams_selected
    \/ \E files \in Uploads : handleFilesUploaded_start(files)
    \/ handleFilesUploaded_converted
    \/ handleFilesUploaded_created
    \/ ExamInserted
    \/ ExamInserted_fetched

SpecOwn == Init /\ [][NextOwn]_vars

\* ------------------------------------- notifications during a title change
\* An exam of the teacher is inserted and announced while a title change of
\* the selected exam is in flight.
NextStale ==
    \/ MountForge
    \/ loadExams_verified
    \/ loadExams_selected
    \/ \E examId \in ExamIds : handleExamSelect_start(examId)
    \/ handleExamSelect_fetched
    \/ \E newTitle \in Titles : handleTitleChange_start(newTitle)
    \/ handleTitleChange_updated
    \/ ExamAnnounced
    \/ ExamInserted
    \/ ExamInserted_fetched

SpecStale == InitSave /\ [][NextStale]_vars

\* ------------------------------------------------------ the create-new panel
\* Selections, the create-new button, deletions and title changes of the
\* selected exam.
NextCreate ==
    \/ MountForge
    \/ loadExams_verified
    \/ loadExams_selected
    \/ handleExamSelect_null
    \/ \E examId \in ExamIds : handleExamSelect_start(examId)
    \/ handleExamSelect_fetched
    \/ \E examId \in ExamIds : handleExamDelete(examId)
    \/ \E newTitle \in Titles : handleTitleChange_start(newTitle)
    \/ handleTitleChange_updated

SpecCreate == InitSave /\ [][NextCreate]_vars

\* ------------------------------------------------- resizing the chat panel
NextResize ==
    \/ MountForge
    \/ loadExams_verified
    \/ loadExams_selected
    \/ handleExamSelect_null
    \/ \E clientY \in ClientYs : startResize(clientY)
    \/ \E clientY \in ClientYs : handleMouseMove(clientY)
    \/ handleMouseUp

SpecResize == InitSave /\ [][NextResize]_vars

\* ------------------------------------------------- waiting for a correction
\* A correction is requested, the workflow inserts it, the stream announces it.
NextWait ==
    \/ MountForge
    \/ loadExams_verified
    \/ loadExams_selected
    \/ \E examId \in ExamIds : handleExamSelect_start(examId)
    \/ handleExamSelect_fetched
    \/ handleCreateCorrection_start
    \/ handleCreateCorrection_responded
    \/ CorrectionAnnounced
    \/ CorrectionInserted
    \/ loadCorrection_fetched

InitWait ==
    InitWith({Some("t1")}, {<<Exam(2, "T2", "b", "t1"), Exam(1, "T1", "a", "t1")>>})

\* The stream delivers what it holds to the subscribed channel, and the calls
\* the handlers await settle.
SpecWait ==
    /\ InitWait /\ [][NextWait]_vars
    /\ SF_<<inbox, notes>>(CorrectionInserted)
    /\ WF_tasks(loadCorrection_fetched) /\ WF_tasks(handleExamSelect_fetched)
    /\ WF_tasks(handleCreateCorrection_responded)
    /\ WF_tasks(loadExams_verified) /\ WF_tasks(loadExams_selected)

\* ------------------------------------------- the domain access layer alone
DataOps == {"pupils.create", "pupils.list", "reports.create", "reports.listByPupil",
            "exams.create", "exams.list", "exams.update", "exams.get",
            "corrections.create", "corrections.getByExamId", "corrections.update"}

CreateOps == {"pupils.create", "reports.create", "exams.create", "corrections.create"}

\* The operations whose query ends with .single().
SingleRowOps == DataOps \ {"pupils.list", "reports.listByPupil", "exams.list"}

Sessions == {Null} \cup {Some(t) : t \in Teachers}

\* The rows a query can match: up to MaxMatched rows with ids of their own.
MatchedRows ==
    {rows \in UNION {[1..n -> 1..MaxMatched] : n \in 0..MaxMatched} :
        \A i, j \in DOMAIN rows : rows[i] = rows[j] => i = j}

\* The ways a call can fail before the store evaluates the query.
Failures == {"", "network", "timeout"}

InsertPayload_anonymous(op, session) == [op |-> op, teacher_id |-> Null]

\* .insert({ ...data, teacher_id: (await supabase.auth.getUser()).data.user?.id })
InsertPayload(op, session) == [op |-> op, teacher_id |-> session]

\* The access policy of the store: a row is written for its owner's session.
PolicyAllowsInsert(row, session) == session # Null /\ row.teacher_id = session

\* What the store answers to the call op: for a create, to the insert of sent;
\* for the others, to a query that matches rows.
StoreResponse(op, rows, failure, sent, session) ==
    IF failure # "" THEN [data |-> Null, error |-> failure]
    ELSE IF op \in CreateOps
    THEN IF PolicyAllowsInsert(sent, session)
         THEN [data |-> Some(sent), error |-> ""]
         ELSE [data |-> Null, error |-> "42501"]
    ELSE IF op \in SingleRowOps THEN Single(rows)
    ELSE [data |-> Some(rows), error |-> ""]

\* What the operation op of the layer does with the answer res of the store.
database(op, res) ==
    CASE op = "exams.get" -> database_exams_get(res)
      [] op = "corrections.getByExamId" -> database_corrections_getByExamId(res)
      [] op = "exams.update" -> database_exams_update(res)
      [] op = "corrections.update" -> database_corrections_update(res)
      [] op = "corrections.create" -> database_corrections_create(res)
      [] OTHER -> ThrowOrReturn(res)

\* One call of the layer.
database_call ==
    \E op \in DataOps, rows \in MatchedRows, failure \in Failures, session \in Sessions :
        LET sent == InsertPayload(op, session)
            res == StoreResponse(op, rows, failure, sent, session)
        IN  /\ last' = Step("database",
                            [op |-> op, rows |-> rows, failure |-> failure,
                             session |-> session, sent |-> sent, res |-> res,
                             inserted |-> op \in CreateOps /\ res.error = "",
                             out |-> database(op, res)])
            /\ UNCHANGED <<authVars, resizeVars, storeVars, forgeVars, dashVars, subVars, noteVars,
                           toast, tasks, shown, kept>>

SpecData == InitDash /\ [][database_call]_vars

\* ------------------------------------------------------------------ claims
Finished(t) == CopiesIn(t, tasks') < CopiesIn(t, tasks)

\* C1: with an exam selected, toggling edit -> correction -> edit without a
\* save, a selection or a deletion in between puts back into the editor exactly
\* the text it showed when the edit -> correction toggle was made.
C1_ToggleRoundTrip ==
    [][(last' = Step("handleToggleMode", "edit") /\ mode = "correction" /\ shown # Null)
        => editableContent' = Val(shown)]_vars

\* C1 witness: a round trip has been made, and the text the editor held in
\* correction mode was another one than the exam text it shows again.
C1_Witness ==
    /\ last = Step("handleToggleMode", "edit") /\ mode = "edit"
    /\ shown # Null /\ editableContent = Val(shown)
    /\ correctionContent # editableContent

\* C10: edit -> correction stores the edit buffer into examContent, and once
\* the transition is over the edit buffer holds the correction content and the
\* mode is correction; correction -> edit stores the edit buffer into
\* correctionContent, puts examContent into the edit buffer and sets mode edit.
C10_ToggleTransitions ==
    [][/\ (last' = Step("handleToggleMode", "correction") /\ mode = "edit")
            => examContent' = editableContent
       /\ (last' = Step("handleToggleMode", "correction") /\ mode = "edit"
           /\ tasks' = tasks)
            => (editableContent' = correctionContent /\ mode' = "correction")
       /\ \A t \in Running :
            (t.h = "loadCorrection" /\ t.caller = "handleToggleMode" /\ Finished(t))
            => (editableContent' = correctionContent' /\ mode' = "correction")
       /\ (last' = Step("handleToggleMode", "edit") /\ mode = "correction")
            => (/\ correctionContent' = editableContent
                /\ editableContent' = examContent
                /\ mode' = "edit")]_vars

Occurrences(list, id) == Cardinality({i \in DOMAIN list : list[i].id = id})

\* C2: once the exams listener has merged two INSERT notifications carrying
\* the same row id, the row appears exactly once in the in-memory exam list.
C2_IdempotentMerge ==
    \A id \in ExamIds : merged[id] >= 2 => Occurrences(exams, id) = 1

\* C3: after the user has confirmed the deletion of the selected exam, the
\* exam is absent from the list and the dependent state is at its initial
\* values.
C3_DeleteClears ==
    (last.op = "handleExamDelete" /\ last.arg.confirmed /\ last.arg.selected)
    => /\ last.arg.examId \notin ListedIds
       /\ selectedExam = Null /\ examContent = "" /\ correctionContent = ""
       /\ correction = Null /\ editableContent = "" /\ chatMessages = <<>>
       /\ mode = "edit"

StoredExams == {dbExams[i] : i \in DOMAIN dbExams}

\* C5: an upload of N files by a signed-in user in which every conversion and
\* every insert succeeded has created N exam rows, one per file and each with
\* an id of its own, holding the title and the content the conversion of that
\* file produced.
C5_UploadCreatesRows ==
    (last.op = "handleFilesUploaded" /\ last.arg.ok)
    => LET files == last.arg.files
           made == last.arg.made
       IN  /\ Len(made) = Len(files)
           /\ \A i \in DOMAIN files :
                /\ made[i] \in StoredExams
                /\ made[i].title = convertWordToMarkdown(files[i]).title
                /\ made[i].content = convertWordToMarkdown(files[i]).content
                /\ Some(made[i].teacher_id) = user
           /\ \A i, j \in DOMAIN made : made[i].id = made[j].id => i = j

\* C5 witness: an upload of two different files has ended successfully.
C5_Witness ==
    /\ last.op = "handleFilesUploaded" /\ last.arg.ok
    /\ Len(last.arg.files) = 2 /\ last.arg.files[1] # last.arg.files[2]

\* C9: when the fetch of the exams INSERT handler returns a row, it is the row
\* of the announced id, it is put at the head of the exam list with the
\* previous entries following in unchanged order, and its content is written
\* into examContentCache under its id (the other entries stay); when the fetch
\* returns no row, the list and the cache are unchanged.
C9_InsertPrepends ==
    [][last'.op = "examInserted_fetched"
        => LET data == last'.arg.data IN
           IF data # Null
           THEN /\ Val(data).id = last'.arg.id
                /\ Val(data) \in StoredExams
                /\ exams' # <<>> /\ Head(exams') = Val(data) /\ Tail(exams') = exams
                /\ DOMAIN examContentCache' = DOMAIN examContentCache \cup {Val(data).id}
                /\ \A k \in DOMAIN examContentCache' :
                     examContentCache'[k] =
                        IF k = Val(data).id THEN Val(data).content ELSE examContentCache[k]
           ELSE exams' = exams /\ examContentCache' = examContentCache]_vars

\* C9 witness: a fetched row has been put in front of a list that was not
\* empty.
C9_Witness ==
    /\ last.op = "examInserted_fetched" /\ last.arg.data # Null
    /\ Len(exams) >= 2 /\ exams[1] = Val(last.arg.data)
    /\ exams[2].id # exams[1].id

\* C4: when the webhook call of handleSendMessage fails or answers with a
\* status that is not ok, then once the handler has finished no chat entry has
\* the id "typing", isSendingMessage is false, the failure notification is
\* shown, and every other chat entry (the user's message among them) is still
\* in the chat.
C4_WebhookFailure ==
    [][last' = Step("handleSendMessage", "webhook failed")
        => /\ \A i \in DOMAIN chatMessages' : chatMessages'[i].id # "typing"
           /\ \A i \in DOMAIN chatMessages :
                chatMessages[i].id # "typing"
                => \E j \in DOMAIN chatMessages' : chatMessages'[j] = chatMessages[i]
           /\ Len(chatMessages') = Cardinality({i \in DOMAIN chatMessages :
                                                  chatMessages[i].id # "typing"})
           /\ isSendingMessage' = FALSE
           /\ toast' = "Failed to get AI response"]_vars

\* C4 witness: a webhook call has failed, and the chat holds the user's
\* message and no placeholder.
C4_Witness ==
    /\ last = Step("handleSendMessage", "webhook failed")
    /\ \E i \in DOMAIN chatMessages : chatMessages[i].isUser
    /\ ~isSendingMessage

\* C6: when the report fetch made for the selected pupil returns no report,
\* availableReports is empty and the reports view shows the "no reports"
\* display (not the loading state), whatever report is current.
C6_NoReports ==
    [][(/\ last'.op = "fetchReports"
        /\ ~last'.arg.failed /\ last'.arg.data = <<>>
        /\ last'.arg.pupilId = selectedPupilId')
        => /\ availableReports' = <<>>
           /\ \A useReport \in HookStates :
                renderReportContent(useReport)' = "no reports"]_vars

\* C6 witness: the fetch for the selected pupil has returned no report while a
\* report of the pupil selected before is current.
C6_Witness ==
    /\ last.op = "fetchReports" /\ ~last.arg.failed /\ last.arg.data = <<>>
    /\ last.arg.pupilId = selectedPupilId
    /\ currentReportId # Null
    /\ availableReports = <<>>

ForgeTopics == {"corrections", "exams"}
DashTopics == {"reports"}

\* C7: in every state each of the tables exams, corrections and reports has at
\* most one subscribed channel, and it is the one opened by the last run of its
\* effect, for the current user and the current selection.
C7_OneSubscription ==
    /\ \A topic \in Topics : Cardinality(OpenedBy({topic})) <= 1
    /\ \A c \in channels :
        /\ Some(c.uid) = user
        /\ c.topic = "corrections" => (Some(c.id) = corrChannel /\ c.selectedExam = selectedExam)
        /\ c.topic = "exams" => Some(c.id) = examsChannel
        /\ c.topic = "reports" => (Some(c.id) = reportsChannel
                                   /\ c.selectedPupilId = selectedPupilId)

\* C7 witness: the corrections effect has run again after a selection and then
\* after a change of the user id, and the screen holds its two channels.
C7_Witness ==
    /\ selectedExam # Null /\ last.op = "useAuth" /\ user # Null
    /\ Cardinality(channels) = Cardinality(ForgeTopics)

\* C8: while a screen is not mounted, no channel it opened is subscribed, and
\* the exams listener handles a notification only while ExerciseForge is
\* mounted.
C8_UnmountCloses ==
    /\ ~mountedForge => OpenedBy(ForgeTopics) = {}
    /\ ~mountedDash => OpenedBy(DashTopics) = {}
    /\ last.op = "examInserted" => mountedForge

\* C8 witness: ExerciseForge has unmounted with both of its channels open.
C8_Witness ==
    /\ last = Step("unmountForge", Cardinality(ForgeTopics))
    /\ OpenedBy(ForgeTopics) = {}

\* C11: once an edit -> correction toggle has been made for the selected exam
\* and its lookup is over (no lookup is in flight, no failure has been shown),
\* a later edit -> correction toggle on that exam issues no correction lookup.
C11_LookupOnce ==
    [][(/\ last' = Step("handleToggleMode", "correction") /\ mode = "edit"
        /\ shown # Null /\ toast = ""
        /\ ~\E t \in Running : t.h = "loadCorrection")
        => ~\E t \in BagToSet(tasks') : t.h = "loadCorrection"]_vars

\* C12: when the transition edit -> correction that follows a correction ->
\* edit toggle is over (no save, selection or notification in between, and
\* the correction lookup, if one is made, succeeds), the editor shows the text
\* it held in correction mode when that toggle was made.
C12_UnsavedCorrectionSurvives ==
    [][/\ (/\ last' = Step("handleToggleMode", "correction") /\ mode = "edit"
           /\ kept # Null /\ tasks' = tasks)
            => editableContent' = Val(kept)
       /\ \A t \in Running :
            (/\ t.h = "loadCorrection" /\ t.caller = "handleToggleMode"
             /\ Finished(t) /\ kept # Null
             /\ last' = Step("handleToggleMode", "lookup done"))
            => editableContent' = Val(kept)]_vars

StoredCorrections == {dbCorrections[i] : i \in DOMAIN dbCorrections}

\* C13: handleSave with a selected exam sends, in mode edit, the update of the
\* exam row with the edit buffer; in mode correction the update of the loaded
\* correction with the edit buffer when one is loaded, and otherwise the
\* creation of a correction of the selected exam holding the edit buffer; the
\* store holds what was sent once it has applied it; a creation that succeeded
\* makes the created row the current correction, so the next save in
\* correction mode is an update; with no exam selected nothing changes.
C13_SaveBranches ==
    [][/\ last'.op = "handleSave_start"
            => LET req == last'.arg.req
                   sel == Val(selectedExam)
               IN  /\ selectedExam # Null
                   /\ req.content = editableContent
                   /\ mode = "edit"
                        => /\ req.op = "exams.update" /\ req.id = sel.id
                           /\ last'.arg.reached
                                => \A r \in StoredExams' :
                                     r.id = sel.id /\ Some(r.teacher_id) = user
                                     => r.content = editableContent
                           /\ dbCorrections' = dbCorrections
                   /\ (mode = "correction" /\ correction # Null)
                        => /\ req.op = "corrections.update"
                           /\ req.id = Val(correction).id
                           /\ Len(dbCorrections') = Len(dbCorrections)
                           /\ last'.arg.reached
                                => \A r \in StoredCorrections' :
                                     r.id = req.id /\ Some(r.teacher_id) = user
                                     => r.content = editableContent
                   /\ (mode = "correction" /\ correction = Null)
                        => /\ req.op = "corrections.create" /\ req.id = sel.id
                           /\ last'.arg.reached
                                => /\ Len(dbCorrections') = Len(dbCorrections) + 1
                                   /\ Head(dbCorrections').exam_id = sel.id
                                   /\ Head(dbCorrections').content = editableContent
       /\ (last'.op = "handleSave" /\ last'.arg.ok
           /\ last'.arg.req.op = "corrections.create")
            => /\ correction' # Null
               /\ \E r \in StoredCorrections : r.id = Val(correction').id
               /\ Val(correction').exam_id = last'.arg.req.id
               /\ SaveRequest("correction", Val(selectedExam'), correction',
                              editableContent').op = "corrections.update"
       /\ last'.op = "handleSave_none"
            => UNCHANGED <<storeVars, forgeVars, toast, tasks>>]_vars

\* C13 witness: a save has updated a correction that an earlier save created
\* (the correction was loaded with the empty text it was created with).
C13_Witness ==
    /\ last.op = "handleSave" /\ last.arg.ok
    /\ last.arg.req.op = "corrections.update"
    /\ correction # Null /\ Val(correction).content = ""
    /\ \E r \in StoredCorrections : r.id = Val(correction).id /\ r.content = "c"

\* C14: each exam has at most one correction row in the remote store.
C14_OneCorrectionPerExam ==
    \A i, j \in DOMAIN dbCorrections :
        dbCorrections[i].exam_id = dbCorrections[j].exam_id => i = j

\* C15: a query that matches no row makes getByExamId return null and makes
\* every other single-row operation throw; getByExamId throws for every error
\* other than not-found: when the call fails, and when more than one row
\* matches.
C15_NotFoundOnlyForLookup ==
    last.op = "database"
    => LET a == last.arg IN
       /\ (a.op \in SingleRowOps \ CreateOps /\ a.failure = "" /\ a.rows = <<>>)
            => IF a.op = "corrections.getByExamId" THEN a.out = Returned(Null)
               ELSE a.out.threw
       /\ (a.op = "corrections.getByExamId" /\ (a.failure # "" \/ Len(a.rows) > 1))
            => a.out.threw

\* C16: every operation returns what the store returned when the store
\* reported no error, and throws the store's error when it reported one; the
\* one exception is getByExamId when its query matches no row.
C16_ReturnsOrThrows ==
    last.op = "database"
    => LET a == last.arg IN
       IF a.res.error = "" THEN a.out = Returned(a.res.data)
       ELSE IF a.op = "corrections.getByExamId" /\ a.failure = "" /\ a.rows = <<>>
       THEN a.out = Returned(Null)
       ELSE a.out = Threw(a.res.error)

\* C17: every create sends as teacher_id the id of the user of the session,
\* and the store inserts no row whose teacher_id is missing.
C17_OwnerOnEveryWrite ==
    (last.op = "database" /\ last.arg.op \in CreateOps)
    => LET a == last.arg IN
       /\ a.session # Null => a.sent.teacher_id = a.session
       /\ a.inserted => (a.sent.teacher_id # Null /\ a.out = Returned(Some(a.sent)))

\* C17 witness: a correction has been created in the session of a teacher.
C17_Witness ==
    /\ last.op = "database" /\ last.arg.op = "corrections.create"
    /\ last.arg.inserted /\ last.arg.sent.teacher_id = Some("t2")

\* The row with this id belongs to another teacher than the current user.
Foreign(rows, id) ==
    \E i \in DOMAIN rows : rows[i].id = id /\ Some(rows[i].teacher_id) # user

\* C18: a notification for a row of another teacher leaves the state of both
\* screens as it is: the lists, the caches, the mode, the flags, the current
\* report, the notices and the handlers in flight.
C18_ForeignRowsIgnored ==
    [][(\/ last'.op = "examInserted" /\ Foreign(dbExams, last'.arg)
        \/ last'.op = "correctionInserted" /\ Foreign(dbCorrections, last'.arg)
        \/ last'.op = "reportInserted" /\ Foreign(dbReports, last'.arg))
       => UNCHANGED <<forgeVars, dashVars, toast, tasks>>]_vars

\* C18 witness: the reports channel of a teacher with a pupil selected has
\* been through the notification for a report of another teacher.
C18_Witness ==
    /\ last.op = "reportInserted" /\ Foreign(dbReports, last.arg)
    /\ mountedDash /\ selectedPupilId # "" /\ currentReportId = Null

\* The runs of loadExams in flight.
Loads(bag) ==
    CopiesIn(loadExams_task, bag) + CopiesIn([h |-> "loadExams", pc |-> "select"], bag)

\* C19: loadExams starts in the step that mounts ExerciseForge and in no other
\* step, whatever the user id and the selected exam become; when the
\* connection check fails the run ends there with its notice, without the
\* exams query; a run that ends leaves loading false; and the run of a mounted
\* screen does end.
C19_LoadOncePerMount ==
    /\ [][/\ CopiesIn(loadExams_task, tasks') > CopiesIn(loadExams_task, tasks)
               => (~mountedForge /\ mountedForge')
          /\ (~mountedForge /\ mountedForge') => Loads(tasks') = 1
          /\ (/\ last'.op = "loadExams" /\ last'.arg = "unreachable"
              /\ Loads(tasks') < Loads(tasks))
               => /\ toast' = "Unable to connect to the database"
                  /\ Loads(tasks') = Loads(tasks) - 1
                  /\ exams' = exams
          /\ (mountedForge' /\ Loads(tasks') < Loads(tasks)) => loading' = FALSE
         ]_<<tasks, mountedForge>>
    /\ [](mountedForge /\ loading => <>(~loading \/ ~mountedForge))

\* C19 witness: after the load of this mount the selection and then the
\* session have changed, and nothing is in flight.
C19_Witness ==
    /\ mountedForge /\ ~loading /\ tasks = EmptyBag
    /\ selectedExam # Null /\ last.op = "useAuth" /\ user # Null

\* C20: when the store answers a write of handleSave, handleTitleChange,
\* handleDeleteReport or handleUpdateTitle with an error, the notice the
\* handler shows is its failure notice, not its success notice.
C20_RejectedWritesFail ==
    [][/\ (last'.op = "handleSave" /\ ~last'.arg.ok)
            => toast' \in {"Failed to save exam", "Failed to save correction"}
       /\ (last'.op = "handleTitleChange" /\ last'.arg.error # "")
            => toast' = "Failed to update title"
       /\ (last'.op = "handleDeleteReport" /\ last'.arg.error # "")
            => toast' = "Failed to delete report"
       /\ (last'.op = "handleUpdateTitle" /\ last'.arg.error # "")
            => toast' = "Failed to update report title"]_vars

\* A call of loadExams, fetchReports or handleSendMessage has failed in this step.
FailedCall ==
    \/ last'.op = "loadExams" /\ last'.arg \in {"unreachable", "error"}
    \/ last'.op = "fetchReports" /\ last'.arg.failed
    \/ last'.op = "handleSendMessage"
         /\ last'.arg \in {"webhook failed", "exam fetch failed"}

\* The steps in which a handler is triggered: a mount, a user action.
Triggered ==
    last'.op \in {"mount", "handlePupilChange", "handleSendMessage_start"}

\* The steps in which a handler goes on to its next call after a success.
GoesOn ==
    \/ last'.op = "loadExams" /\ last'.arg = "connected"
    \/ last'.op = "handleSendMessage_responded"

\* C21: the step in which a call fails ends its handler and sends nothing, and
\* a request is sent only in a step that triggers a handler or in which a
\* handler goes on after a call that succeeded.
C21_NoAutomaticRetry ==
    [][/\ FailedCall => \E t \in Running : tasks' = tasks (-) SetToBag({t})
       /\ (\E t \in BagToSet(tasks') : CopiesIn(t, tasks') > CopiesIn(t, tasks))
            => (Triggered \/ GoesOn)]_vars

\* C21 witness: the webhook call of the chat has failed and nothing is in
\* flight.
C21_Witness ==
    /\ last.op = "handleSendMessage" /\ last.arg = "webhook failed"
    /\ tasks = EmptyBag /\ ~isSendingMessage /\ toast = "Failed to get AI response"

\* C22: merging the notification of an inserted exam sets newExamId to the id
\* of that exam; selecting the flagged exam clears newExamId; selecting another
\* exam, or none, leaves newExamId as it is.
C22_NewFlag ==
    [][/\ (last'.op = "examInserted_fetched" /\ last'.arg.data # Null)
            => newExamId' = Some(last'.arg.id)
       /\ last'.op = "handleExamSelect_start"
            => newExamId' = IF newExamId = Some(last'.arg) THEN Null ELSE newExamId
       /\ (last'.op = "handleExamSelect" /\ mountedForge')
            => newExamId' = newExamId]_vars

\* C22 witness: the exam that a notification had flagged has been selected,
\* and the flag is cleared.
C22_Witness ==
    /\ last.op = "handleExamSelect_start" /\ merged[last.arg] > 0
    /\ newExamId = Null /\ Len(exams) > 1

\* C23: a fetch of reports that resolves sets availableReports to the reports
\* of the pupil it was sent for, whichever pupil is selected by then, and
\* leaves selectedPupilId as it is.
C23_SupersededFetchApplied ==
    [][(last'.op = "fetchReports" /\ ~last'.arg.failed)
        => /\ availableReports' = last'.arg.data
           /\ last'.arg.data = SelectReportsByPupil(last'.arg.pupilId)
           /\ selectedPupilId' = selectedPupilId]_vars

\* C23 witness: pupil p2 is selected, every fetch has resolved, the one for
\* pupil p1 last, and the list holds the reports of p1.
C23_Witness ==
    /\ last.op = "fetchReports" /\ last.arg.pupilId = "p1" /\ ~last.arg.failed
    /\ selectedPupilId = "p2" /\ tasks = EmptyBag
    /\ availableReports = SelectReportsByPupil("p1")
    /\ availableReports # SelectReportsByPupil("p2")

\* C24: a selection that succeeds shows the row the store holds for the exam
\* when the fetch resolves: selectedExam, examContent and editableContent come
\* from that row, whatever examContentCache and examListCache hold for the exam.
C24_ShownFromStore ==
    [][(/\ last'.op = "handleExamSelect" /\ isLoadingContent /\ ~isLoadingContent'
        /\ last'.arg = "selected")
        => \E i \in DOMAIN dbExams :
              /\ selectedExam' = Some(dbExams[i])
              /\ examContent' = dbExams[i].content
              /\ editableContent' = dbExams[i].content]_vars

\* C24 witness: the selected exam is shown as the store holds it while
\* examListCache still holds the content the exam had when the list was loaded.
C24_Witness ==
    /\ last.op = "handleExamSelect" /\ selectedExam # Null /\ last.arg = "selected"
    /\ \E i \in DOMAIN dbExams : selectedExam = Some(dbExams[i])
    /\ examContent = Val(selectedExam).content
    /\ \E j \in DOMAIN examListCache :
          /\ examListCache[j].id = Val(selectedExam).id
          /\ examListCache[j].content # examContent

\* The fields of the body the webhook accepts.
WebhookFields == {"examId", "teacherId", "message", "mode", "correctionId"}

\* C25: the body of every request to the webhook that is in flight carries the
\* five fields examId, teacherId, message, mode and correctionId, and a request
\* sent from the create-new panel has mode "create" and a null examId.
C25_WebhookBody ==
    \A t \in Running :
        (t.h \in {"handleSendMessage", "handleCreateCorrection"} /\ t.pc = "fetch")
        => /\ DOMAIN t.body = WebhookFields
           /\ (t.h = "handleSendMessage" /\ t.isCreatingNew)
                => (t.body.mode = "create" /\ t.body.examId = Null)

\* The stream holds the notification of a correction of the current teacher.
OwnCorrectionAnnounced ==
    \E n \in BagToSet(inbox) : n.table = "corrections" /\ Some(n.teacher_id) = user

C27_NoDuplicateIds ==
    \A id \in ExamIds : Occurrences(exams, id) <= 1

IdsOf(list) == {list[i].id : i \in DOMAIN list}

\* C28: when a call of handleFilesUploaded ends having processed its N files
\* successfully, the N exams it created are in the in-memory exam list and in
\* examListCache, together with every exam the list held when the call began.
C28_UploadedAllListed ==
    [][\A t \in Running :
          (t.h = "handleFilesUploaded" /\ tasks' = Finish(t)
           /\ last'.op = "handleFilesUploaded" /\ last'.arg.ok)
          => /\ IdsOf(last'.arg.made) \subseteq IdsOf(exams')
             /\ IdsOf(last'.arg.made) \subseteq IdsOf(examListCache')
             /\ IdsOf(t.exams) \subseteq IdsOf(exams')
             /\ IdsOf(t.exams) \subseteq IdsOf(examListCache')]_vars

\* C29: an exam an insertion notification has merged into the in-memory list
\* is still in the list after a title change (handleTitleChange) that began
\* before the notification arrived has finished.
C29_MergedExamStays ==
    [][last'.op = "handleTitleChange"
        => \A id \in ExamIds :
              (merged[id] > 0 /\ id \in ListedIds) => id \in IdsOf(exams')]_vars

\* C30: once no call of Dashboard is pending, currentReportId is null or the
\* id of a report in availableReports.
C30_CurrentReportListed ==
    (mountedDash /\ tasks = EmptyBag)
    => \/ currentReportId = Null
       \/ Val(currentReportId) \in IdsOf(availableReports)

\* C31: whenever correction is non-null it is the correction of the selected
\* exam, also when a lookup started for one exam resolves after another exam
\* has been selected.
C31_CorrectionOfSelected ==
    (mountedForge /\ correction # Null)
    => /\ selectedExam # Null
       /\ Val(correction).exam_id = Val(selectedExam).id

\* C32: when the lookup a correction-ready notification started ends and
\* switches the screen from edit to correction (nothing was typed since the
\* notification arrived), the exam text a toggle back to edit will show,
\* examContent, is the text the edit buffer held.
C32_BufferSurvivesNotification ==
    [][\A t \in Running :
          (/\ t.h = "loadCorrection" /\ t.caller = "correctionInserted"
           /\ tasks' = Finish(t)
           /\ last.op = "correctionInserted"
           /\ mode = "edit" /\ mode' = "correction")
          => examContent' = editableContent]_vars

\* C33: in every state of ExerciseForge, isCreatingNew = true implies
\* selectedExam = null.
C33_CreatingMeansNoSelection ==
    (mountedForge /\ isCreatingNew) => selectedExam = Null

\* The webhook requests that have been sent and not answered.
RequestsInFlight ==
    {t \in Running : t.h \in {"handleSendMessage", "handleCreateCorrection"}
                     /\ t.pc = "fetch"}

\* C34: isSendingMessage is true as long as a webhook request of
\* handleSendMessage or handleCreateCorrection is in flight, and the "typing"
\* placeholder is in the chat as long as a chat request is in flight.
C34_BusyWhileInFlight ==
    /\ RequestsInFlight # {} => isSendingMessage
    /\ (\E t \in RequestsInFlight : t.h = "handleSendMessage")
       => \E i \in DOMAIN chatMessages : chatMessages[i].id = "typing"

\* C35: the step of handleSave that ends a save whose remote call failed
\* leaves examContent, correctionContent, correction, the exam list,
\* examContentCache, the edit buffer and mode as they were.
C35_FailedSaveChangesNothing ==
    [][(last'.op = "handleSave" /\ ~last'.arg.ok)
        => UNCHANGED <<examContent, correctionContent, correction, exams,
                       examListCache, examContentCache, editableContent, mode>>]_vars

\* C35 witness: a save in edit mode of a buffer that differs from the exam
\* content has failed.
C35_Witness ==
    /\ last.op = "handleSave" /\ ~last.arg.ok
    /\ last.arg.req.op = "exams.update"
    /\ mode = "edit" /\ editableContent # examContent

\* C36: the step that ends the exam fetch of handleExamSelect ends with
\* isLoadingContent false; when the fetch failed or returned no exam it leaves
\* selectedExam, examContent, editableContent, correction, correctionContent,
\* mode and chatMessages as they were; when it succeeded selectedExam is the
\* stored exam of the requested id, examContent and editableContent are its
\* content, correction is null, correctionContent is "", the chat is empty,
\* mode is edit and isCreatingNew is false.
C36_SelectOutcome ==
    [][\A t \in Running :
          (t.h = "handleExamSelect" /\ CopiesIn(t, tasks') < CopiesIn(t, tasks))
          => /\ ~isLoadingContent'
             /\ IF last'.arg = "error"
                THEN UNCHANGED <<selectedExam, examContent, editableContent,
                                 correction, correctionContent, mode, chatMessages>>
                ELSE /\ selectedExam' # Null
                     /\ Val(selectedExam').id = t.examId
                     /\ \E i \in DOMAIN dbExams :
                           /\ dbExams[i].id = t.examId
                           /\ examContent' = dbExams[i].content
                           /\ editableContent' = dbExams[i].content
                     /\ correction' = Null /\ correctionContent' = ""
                     /\ chatMessages' = <<>> /\ mode' = "edit"
                     /\ ~isCreatingNew']_vars

\* C36 witness: the fetch of a selection made in correction mode has failed,
\* and the screen is still in correction mode on the exam selected before.
C36_Witness ==
    /\ last.op = "handleExamSelect" /\ selectedExam # Null
    /\ toast = "Failed to load exam" /\ mode = "correction"
    /\ ~isLoadingContent

\* C37: the chat panel height starts at 300, stays within [200, 800] in every
\* state, and every mouse move of a resize sets it to the start height plus
\* the upward drag distance, clamped to that range.
C37_ChatHeightClamped ==
    /\ chatHeight = 300
    /\ [](chatHeight >= 200 /\ chatHeight <= 800)
    /\ [][last'.op = "handleMouseMove"
          => LET dragged == startHeight + (startResizeY - last'.arg) IN
             chatHeight' = IF dragged < 200 THEN 200
                           ELSE IF dragged > 800 THEN 800 ELSE dragged]_vars

\* C37 witness: a drag upwards beyond the range has left the panel at its
\* greatest height, with the resize still going on.
C37_Witness ==
    /\ last.op = "handleMouseMove" /\ listeners > 0
    /\ startHeight + (startResizeY - last.arg) > 800
    /\ chatHeight = 800

====
